---- MODULE Spec2Model ----
(***************************************************************************)
(* Branch-deletion ledger of the Gitea VS Code extension                   *)
(* (src/features/branches.js, class BranchManager, lines 296-1088).        *)
(*                                                                         *)
(* The ledger is the Map `deletedBranches` (repository path -> array of    *)
(* deletion records); the durable store is the globalState memento under   *)
(* the key 'giteaDeletedBranches'; the working copy is reduced to its      *)
(* branch references.  Every handler is one action, its prompts and the    *)
(* outcomes of its subprocesses being inputs; showDiffPreview, whose       *)
(* prompts loop, is a step machine.  `file` is the document written by the *)
(* last export; `last` (the last handler, its inputs and its result),      *)
(* `confirmed` and `initial` (the history the behaviour started from and  *)
(* the documents it is going to import) are history variables.  `listed`  *)
(* is the array a caller holds from its last getDeletedBranches.  `auth`   *)
(* is the GiteaAuth object (src/unnamed/part_000): its profiles, the       *)
(* active one, the cache of GET responses and the answer of the request    *)
(* made by the last step.  `sanitized` is an argument of                   *)
(* sanitizeBranchName and, once the function has run, its result.          *)
(* `inflight` holds what the event loop has open while other handlers run: *)
(* the writes handed to globalState.update that have not completed, in the *)
(* order of the calls, and the record picked in a showDeletedBranches that *)
(* waits for its Yes/No answer.                                            *)
(***************************************************************************)
EXTENDS Integers, Sequences, FiniteSets, TLC

VARIABLES deletedBranches, globalState, storeUp, branches, now, file, preview, confirmed,
          last, initial, listed, auth, sanitized, inflight

vars == <<deletedBranches, globalState, storeUp, branches, now, file, preview, confirmed,
          last, initial, listed, auth, sanitized, inflight>>

(***************************************************************************)
(* Universe                                                                *)
(***************************************************************************)
Repos == {"r1", "r2"}
\* repositories of the workspace (getRepositoryPath finds only these); the
\* ledger may also hold repositories that came from an import or from sync
WorkRepos == {"r1"}
Names == {"b1", "b2"}
Commits == {"c1", "c2"}
NoCommit == "none"
Sources == {"extension", "reflog"}

\* longest deletion sequence one repository reaches by deleteBranch
MaxLen == 2
\* records in the ledger a handler starts from (SpecHandlers)
MaxLedgerRecs == 1
\* records in an imported document
MaxDocRecs == 2
\* lines of a reflog
MaxLines == 2

(***************************************************************************)
(* Deletion records and Map entries                                        *)
(***************************************************************************)
Rec(n, c, t, by) == [name |-> n, commit |-> c, deletedAt |-> t, deletedBy |-> by]

\* a Map entry: no key, an array of records, or the JSON value null
Absent == [kind |-> "absent", recs |-> <<>>]
Null == [kind |-> "null", recs |-> <<>>]
Arr(s) == [kind |-> "seq", recs |-> s]

EmptyMap == [r \in Repos |-> Absent]

Has(m, r) == m[r].kind # "absent"

\* the order of the keys of a Map and of Object.entries of a stored or
\* imported object
RepoOrder == <<"r1", "r2">>

RECURSIVE SeqsUpTo(_, _)
SeqsUpTo(S, n) ==
    IF n = 0 THEN {<<>>}
    ELSE LET shorter == SeqsUpTo(S, n - 1)
         IN shorter \cup {Append(s, x) : s \in {t \in shorter : Len(t) = n - 1}, x \in S}

(***************************************************************************)
(* The program state a handler reads and writes, as one record             *)
(***************************************************************************)
Cur == [deletedBranches |-> deletedBranches, globalState |-> globalState, branches |-> branches]

Out(m, st, br, res) == [deletedBranches |-> m, globalState |-> st, branches |-> br, result |-> res]

\* saveDeletionHistory adding to the stored arrays the record that was pushed
\* last, instead of writing the whole Map
saveLastRecord(m, st, saveOk) ==
    IF ~saveOk THEN st
    ELSE [r \in Repos |->
            IF m[r].kind = "seq" /\ st[r].kind = "seq" /\ Len(m[r].recs) > Len(st[r].recs)
            THEN Arr(Append(st[r].recs, m[r].recs[Len(m[r].recs)]))
            ELSE m[r]]

\* saveDeletionHistory: copies every Map entry into an object and writes it
\* under 'giteaDeletedBranches'; a failing write is logged, never raised
saveDeletionHistory(m, st, saveOk) == IF saveOk THEN m ELSE st

\* line 348: config.get('branchDeletionRetentionDays', 90); the setting is
\* the empty set when the user has not set it
DefaultRetentionDays == 90

retentionDays(cfg) == IF cfg = {} THEN DefaultRetentionDays ELSE CHOOSE d \in cfg : TRUE

\* times are whole days; a deletedAt that new Date() cannot parse (a missing
\* field, the 'Unknown date' of a reflog candidate) is UnknownDate
UnknownDate == 0 - 1

\* lines 349-350: cutoffDate = now - retentionDays
cutoffDate(t, days) == t - days

\* lines 353-356: the filter keeps d when new Date(d.deletedAt) >= cutoffDate;
\* an invalid date compares false
KeptByFilter(d, cutoff) == d.deletedAt # UnknownDate /\ d.deletedAt >= cutoff

\* the loop of lines 352-358 from the i-th Map entry on: filtering an entry
\* that is null throws, which ends the loop (the catch of line 359 logs it)
RECURSIVE CleanupFrom(_, _, _)
CleanupFrom(m, cutoff, i) ==
    IF i > Len(RepoOrder) THEN m
    ELSE LET r == RepoOrder[i]
         IN IF ~Has(m, r) THEN CleanupFrom(m, cutoff, i + 1)
            ELSE IF m[r].kind = "null" THEN m
            ELSE CleanupFrom([m EXCEPT ![r] = Arr(SelectSeq(m[r].recs,
                                                      LAMBDA d : KeptByFilter(d, cutoff)))],
                             cutoff, i + 1)

\* cleanupOldDeletions removing, of the records the filter rejects, only the
\* first one of each repository
cleanupFirstRejected(m, t, cfg) ==
    [r \in Repos |->
        IF m[r].kind # "seq" THEN m[r]
        ELSE LET cutoff == cutoffDate(t, retentionDays(cfg))
                 rejected == {i \in 1..Len(m[r].recs) : ~KeptByFilter(m[r].recs[i], cutoff)}
             IN IF rejected = {} THEN m[r]
                ELSE LET k == CHOOSE i \in rejected : \A j \in rejected : i <= j
                     IN Arr(SubSeq(m[r].recs, 1, k - 1) \o SubSeq(m[r].recs, k + 1, Len(m[r].recs)))]

\* cleanupOldDeletions at time t with the setting cfg
cleanupOldDeletions(m, t, cfg) == CleanupFrom(m, cutoffDate(t, retentionDays(cfg)), 1)

\* LoadedEntries keeping what was read before the failure
LoadedEntriesPartial(st, read) ==
    IF read = "ok" THEN st ELSE [r \in Repos |-> IF r = RepoOrder[1] THEN st[r] ELSE Absent]

\* lines 316-319: the entries of the stored object are put into the new Map;
\* when globalState.get or Object.entries throws (read = "fails") the loop is
\* never entered
LoadedEntries(st, read) == IF read = "ok" THEN st ELSE EmptyMap

\* loadDeletionHistory: read, copy, cleanupOldDeletions; a failure of the
\* read leaves through the catch of line 322, without the clean-up
loadDeletionHistory(st, read, t, cfg) ==
    IF read = "ok" THEN cleanupOldDeletions(LoadedEntries(st, read), t, cfg)
    ELSE LoadedEntries(st, read)

\* getDeletedBranches: this.deletedBranches.get(repoPath) || []
getDeletedBranches(m, r) == IF m[r].kind = "seq" THEN m[r].recs ELSE <<>>

\* the subprocess of deleteBranch that ends with a non-zero status: rev-parse
\* of a name that is no branch, `git branch -d` of a branch that is not
\* merged (`merged` is the working copy's answer to -d); "-" when both work
DeleteFailure(s, r, b, force, merged) ==
    IF s.branches[r][b] = NoCommit THEN "git rev-parse"
    ELSE IF ~force /\ ~merged THEN "git branch -d"
    ELSE "-"

\* deleteBranch that tracks the deletion before it runs git
deleteBranchTracksFirst(s, r, b, force, merged, t, saveOk) ==
    LET m == [s.deletedBranches EXCEPT
                ![r] = Arr(Append(getDeletedBranches(s.deletedBranches, r),
                                  Rec(b, s.branches[r][b], t, "extension")))]
        st == saveDeletionHistory(m, s.globalState, saveOk)
    IN IF DeleteFailure(s, r, b, force, merged) # "-"
       THEN Out(m, st, s.branches, "error")
       ELSE Out(m, st, [s.branches EXCEPT ![r][b] = NoCommit], "ok")

\* deleteBranch that builds the repository's array from what the store holds
deleteBranchFromStore(s, r, b, force, merged, t, saveOk) ==
    IF DeleteFailure(s, r, b, force, merged) # "-"
    THEN Out(s.deletedBranches, s.globalState, s.branches, "error")
    ELSE LET m == [s.deletedBranches EXCEPT
                     ![r] = Arr(Append(getDeletedBranches(s.globalState, r),
                                       Rec(b, s.branches[r][b], t, "extension")))]
         IN Out(m, saveDeletionHistory(m, s.globalState, saveOk),
                [s.branches EXCEPT ![r][b] = NoCommit], "ok")

\* deleteBranch: rev-parse, git branch -d/-D, push the record, save.
\* A failing subprocess throws before anything is tracked; pushing onto a
\* null entry throws after the branch is gone.  The catch raises
\* 'Failed to delete branch: ...'.
deleteBranch(s, r, b, force, merged, t, saveOk) ==
    IF DeleteFailure(s, r, b, force, merged) # "-"
    THEN Out(s.deletedBranches, s.globalState, s.branches, "error")
    ELSE LET br == [s.branches EXCEPT ![r][b] = NoCommit]
             m1 == IF Has(s.deletedBranches, r) THEN s.deletedBranches
                   ELSE [s.deletedBranches EXCEPT ![r] = Arr(<<>>)]
         IN IF m1[r].kind = "null"
            THEN Out(m1, s.globalState, br, "error")
            ELSE LET m2 == [m1 EXCEPT ![r] = Arr(Append(m1[r].recs,
                                                   Rec(b, s.branches[r][b], t, "extension")))]
                 IN Out(m2, saveDeletionHistory(m2, s.globalState, saveOk), br, "ok")

\* the filter of restoreBranch: deleted.filter(b => b.name !== branchName)
RestoreFilter(recs, b, c) == SelectSeq(recs, LAMBDA x : x.name # b)

\* the subprocess of restoreBranch that ends with a non-zero status:
\* `git branch <name> <commit>` when the name is taken or git fails
\* otherwise (gitOk = FALSE); "-" when it works
RestoreFailure(s, r, b, gitOk) ==
    IF s.branches[r][b] # NoCommit \/ ~gitOk THEN "git branch" ELSE "-"

\* restoreBranch: git branch <name> <commit>, then drop the tracked records
\* and save when the repository has a Map entry; filtering a null entry
\* throws after the branch is created.  The catch raises
\* 'Failed to restore branch: ...'.
restoreBranch(s, r, b, c, gitOk, saveOk) ==
    IF RestoreFailure(s, r, b, gitOk) # "-"
    THEN Out(s.deletedBranches, s.globalState, s.branches, "error")
    ELSE LET br == [s.branches EXCEPT ![r][b] = c]
             m == s.deletedBranches
         IN IF ~Has(m, r) THEN Out(m, s.globalState, br, "ok")
            ELSE IF m[r].kind = "null" THEN Out(m, s.globalState, br, "error")
            ELSE LET m2 == [m EXCEPT ![r] = Arr(RestoreFilter(m[r].recs, b, c))]
                 IN Out(m2, saveDeletionHistory(m2, s.globalState, saveOk), br, "ok")

\* createBranch: git checkout -b <name> <base>; `c` is the commit the base
\* resolves to
createBranch(s, r, b, c) ==
    IF s.branches[r][b] # NoCommit
    THEN Out(s.deletedBranches, s.globalState, s.branches, "error")
    ELSE Out(s.deletedBranches, s.globalState, [s.branches EXCEPT ![r][b] = c], "ok")

NoRepo == "-"

\* showDeletedBranches: repository lookup, the list of tracked deletions, the
\* selection prompt (pick = 0: dismissed), the Yes/No prompt, restoreBranch.
\* Every error is caught and shown, never raised.
showDeletedBranches(s, r, pick, confirm, gitOk, saveOk) ==
    IF r = NoRepo THEN Out(s.deletedBranches, s.globalState, s.branches, "error")
    ELSE LET deleted == getDeletedBranches(s.deletedBranches, r)
         IN IF Len(deleted) = 0 THEN Out(s.deletedBranches, s.globalState, s.branches, "empty")
            ELSE IF pick = 0 \/ confirm # "Yes"
            THEN Out(s.deletedBranches, s.globalState, s.branches, "declined")
            ELSE LET out == restoreBranch(s, r, deleted[pick].name, deleted[pick].commit, gitOk, saveOk)
                 IN [out EXCEPT !.result = IF out.result = "ok" THEN "restored" ELSE "error"]

\* restoreFromReflog that tracks every candidate it has found
restoreFromReflogTracking(s, r, deletions, pick, confirm, gitOk, saveOk) ==
    IF r = NoRepo \/ Len(deletions) = 0
    THEN Out(s.deletedBranches, s.globalState, s.branches, "empty")
    ELSE LET m == [s.deletedBranches EXCEPT
                     ![r] = Arr(getDeletedBranches(s.deletedBranches, r) \o deletions)]
         IN Out(m, saveDeletionHistory(m, s.globalState, saveOk), s.branches, "declined")

\* restoreFromReflog, after the scan: `deletions` is the list of candidates the
\* scan produced; the prompts and the restore are those of showDeletedBranches
restoreFromReflog(s, r, deletions, pick, confirm, gitOk, saveOk) ==
    IF r = NoRepo THEN Out(s.deletedBranches, s.globalState, s.branches, "error")
    ELSE IF Len(deletions) = 0 THEN Out(s.deletedBranches, s.globalState, s.branches, "empty")
    ELSE IF pick = 0 \/ confirm # "Yes"
    THEN Out(s.deletedBranches, s.globalState, s.branches, "declined")
    ELSE LET out == restoreBranch(s, r, deletions[pick].name, deletions[pick].commit, gitOk, saveOk)
         IN [out EXCEPT !.result = IF out.result = "ok" THEN "restored" ELSE "error"]

\* A line of `git reflog --all --date=iso --no-abbrev-commit`, as far as the
\* scan looks at it: `hash` is the run of hexadecimal digits the line starts
\* with ("" when it starts with something else), `stamp` what the first pair
\* of braces holds (UnknownDate when the line has no braces), `parts` the
\* phrases of the message in text order, each followed by a branch name.
\* Of that name `head` is the longest prefix made of the characters of
\* [\w\-\/\.] and `tail` the rest ("" for a name such as feature-y, "#1" for
\* a name such as b1#1).
Part(phrase, head, tail) == [phrase |-> phrase, head |-> head, tail |-> tail]

Line(hash, stamp, parts) == [hash |-> hash, stamp |-> stamp, parts |-> parts]

\* the four patterns with the forced deletion tried second
PatternOrderForceSecond == <<"standard", "force", "remote", "update-ref">>

\* the four patterns, in the order of the array of lines 792-801
PatternOrder == <<"standard", "remote", "force", "update-ref">>

\* the phrases a pattern matches
MatchesPattern(pattern, phrase) ==
    CASE pattern = "standard" -> phrase = "branch: deleted"
      [] pattern = "remote" -> phrase \in {"deleted remote-tracking branch", "deleted remote branch"}
      [] pattern = "force" -> phrase \in {"branch: force-deleted", "branch: deleted"}
      [] OTHER -> phrase = "update-ref delete refs/heads/"

\* line.match(pattern): the pattern is anchored at the hash and its lazy .*?
\* stops at the first phrase it matches; 0 when there is no match
MatchAt(line, pattern) ==
    LET hits == {i \in 1..Len(line.parts) : MatchesPattern(pattern, line.parts[i].phrase)}
    IN IF line.hash = "" \/ hits = {} THEN 0
       ELSE CHOOSE i \in hits : \A j \in hits : i <= j

\* the inner loop of lines 805-825: the first pattern that matches the line;
\* 0 when none does
FirstPattern(line) ==
    LET ks == {k \in 1..Len(PatternOrder) : MatchAt(line, PatternOrder[k]) # 0}
    IN IF ks = {} THEN 0 ELSE CHOOSE k \in ks : \A j \in ks : k <= j

\* commit.substring(0, 7): "c1b" stands for a hash that shares its first
\* seven digits with "c1"
Prefix7(hash) == IF hash = "c1b" THEN "c1" ELSE hash

\* KeyOf built from the whole hash
KeyOfWholeHash(name, hash) == <<name, hash>>

\* line 813: the key of the duplicate check
KeyOf(name, hash) == <<name, Prefix7(hash)>>

\* the loop of lines 804-826 from the i-th line on; acc holds the candidates
\* and the keys seen so far
RECURSIVE ScanFrom(_, _, _)
ScanFrom(lines, i, acc) ==
    IF i > Len(lines) THEN acc.deletions
    ELSE LET line == lines[i]
             k == FirstPattern(line)
         IN IF k = 0 THEN ScanFrom(lines, i + 1, acc)
            ELSE LET part == line.parts[MatchAt(line, PatternOrder[k])]
                     key == KeyOf(part.head, line.hash)
                 IN IF key \in acc.seen THEN ScanFrom(lines, i + 1, acc)
                    ELSE ScanFrom(lines, i + 1,
                                  [deletions |-> Append(acc.deletions,
                                                        Rec(part.head, line.hash, line.stamp, "reflog")),
                                   seen |-> acc.seen \cup {key}])

\* lines 787-826: the candidates the scan of the reflog produces
ScanReflog(lines) == ScanFrom(lines, 1, [deletions |-> <<>>, seen |-> {}])

\* reflogs with at most one line, a standard deletion of a branch
ShortReflogs ==
    {<<>>} \cup {<<Line(c, 0, <<Part("branch: deleted", b, "")>>)>> : b \in Names, c \in Commits}

(***************************************************************************)
(* showDiffPreview                                                         *)
(***************************************************************************)
DiffOutcomes == {"files", "empty", "fails"}

\* AfterDiff with a failing diff ending the preview without a prompt
AfterDiffFailureEnds(diff) ==
    CASE diff = "files" -> "PreviewingFileList"
      [] diff = "empty" -> "ConfirmNoDiff"
      [] OTHER -> "Cancelled"

\* AfterDiff with the file list shown for an empty diff as well
AfterDiffListsEmpty(diff) ==
    IF diff = "fails" THEN "ConfirmDegraded" ELSE "PreviewingFileList"

\* where showDiffPreview waits after `git diff --name-status`: the file list,
\* the "no differences" message, or (getCurrentBranch or the diff threw) the
\* warning of the catch block
AfterDiff(diff) ==
    CASE diff = "files" -> "PreviewingFileList"
      [] diff = "empty" -> "ConfirmNoDiff"
      [] OTHER -> "ConfirmDegraded"

\* FileListResult with a dismissed quick pick taken for a confirmation
FileListResultUnlessCancel(choice) == choice # "cancel"

\* the value returned for an entry of the file-list quick pick that is not a
\* file: undefined (dismissed), value 'restore', value 'cancel'
FileListResult(choice) == choice = "restore"

\* ConfirmResult with the degraded prompt taken for a refusal
ConfirmResultDegradedRefuses(state, answer) ==
    state = "ConfirmNoDiff" /\ answer = "Restore Anyway"

\* the value returned by the two binary prompts:
\* proceed === 'Restore Anyway' and proceed === 'Restore'
ConfirmResult(state, answer) ==
    IF state = "ConfirmNoDiff" THEN answer = "Restore Anyway" ELSE answer = "Restore"

ConfirmAnswers(state) ==
    IF state = "ConfirmNoDiff" THEN {"Restore Anyway", "Cancel", "dismissed"}
    ELSE {"Restore", "Cancel", "dismissed"}

\* `diff` is the outcome of the last `git diff --name-status` while a prompt
\* of the preview is open, "-" otherwise; `view` is the outcome of the last
\* showFileDiff of the flow, "-" when no file has been inspected
IdlePreview ==
    [state |-> "Idle", repo |-> "-", name |-> "-", commit |-> "-", inspected |-> FALSE,
     diff |-> "-", view |-> "-"]

\* showFileDiff that checks the commit out under the name of the branch
showFileDiffChecksOut(s, r, b, c, viewOk) ==
    Out(s.deletedBranches, s.globalState, [s.branches EXCEPT ![r][b] = c],
        IF viewOk THEN "shown" ELSE "warned")

\* showFileDiff: builds the two git: URIs and runs the command vscode.diff;
\* when that throws, the catch shows a warning and the function returns as
\* well.  Nothing of the program state is written.
showFileDiff(s, r, b, c, viewOk) ==
    Out(s.deletedBranches, s.globalState, s.branches, IF viewOk THEN "shown" ELSE "warned")

Quiescent == preview.state \in {"Idle", "Confirmed", "Cancelled"}

NoDoc == [version |-> "-", kind |-> "-", entries |-> EmptyMap]

\* what a behaviour starts from: a history (of the ledger or of the store)
\* and the documents that are going to be imported, in that order
Given(m, docs) == [history |-> m, docs |-> docs]

NoSelection == [repo |-> "-", name |-> "-", commit |-> "-"]

\* no write is under way and no prompt is open; `overlap` tells that a
\* handler has run while the write of another one was under way
NoCalls == [writes |-> <<>>, selection |-> NoSelection, overlap |-> FALSE]

\* no array is held
NoList == [repo |-> "-", recs |-> <<>>, alias |-> FALSE]

\* line 690: the array of the Map's entry itself when the entry holds an
\* array (alias: the held array and the entry are one object), else a new
\* empty array
ListOf(m, r) == [repo |-> r, recs |-> getDeletedBranches(m, r), alias |-> m[r].kind = "seq"]

\* the held array after a handler that pushes onto the array of r's entry
\* and leaves the Map as m
ListedPushed(r, m) ==
    IF listed.alias /\ listed.repo = r
    THEN [listed EXCEPT !.recs = getDeletedBranches(m, r)] ELSE listed

\* the held array after Map.set has put other arrays in the entries of rs:
\* it keeps its elements and is no entry's array any more
ListedReplaced(rs) ==
    IF listed.repo \in rs THEN [listed EXCEPT !.alias = FALSE] ELSE listed

LastOf(op, r, b, c, res, ans) ==
    [op |-> op, repo |-> r, name |-> b, commit |-> c, result |-> res, answer |-> ans,
     strategy |-> "-", doc |-> NoDoc, count |-> 0, days |-> 0, reflog |-> <<>>,
     candidates |-> <<>>, lagged |-> globalState # deletedBranches, failed |-> "-"]

Apply(out) ==
    /\ deletedBranches' = out.deletedBranches
    /\ globalState' = out.globalState
    /\ branches' = out.branches

PreviewEnd(res, ans) ==
    /\ preview' = [preview EXCEPT !.state = IF res THEN "Confirmed" ELSE "Cancelled",
                                  !.diff = "-"]
    /\ last' = LastOf("showDiffPreview", preview.repo, preview.name, preview.commit,
                      IF res THEN "true" ELSE "false", ans)
    /\ confirmed' = IF res THEN confirmed \cup {<<preview.repo, preview.name, preview.commit>>}
                    ELSE confirmed
    /\ UNCHANGED <<deletedBranches, globalState, storeUp, branches, now, file, initial, listed, auth, sanitized, inflight>>

\* entry: getCurrentBranch and git diff --name-status
ShowDiffPreview ==
    /\ Quiescent
    /\ \E r \in WorkRepos, b \in Names, c \in Commits, diff \in DiffOutcomes :
         /\ preview' = [state |-> AfterDiff(diff), repo |-> r, name |-> b, commit |-> c,
                       inspected |-> FALSE, diff |-> diff, view |-> "-"]
         /\ last' = LastOf("showDiffPreview", r, b, c, "pending", "-")
    /\ UNCHANGED <<deletedBranches, globalState, storeUp, branches, now, file, confirmed, initial, listed, auth, sanitized, inflight>>

\* the file-list quick pick answered with something that is not a file
PreviewChoose ==
    /\ preview.state = "PreviewingFileList"
    /\ \E choice \in {"restore", "cancel", "dismissed"} :
         PreviewEnd(FileListResult(choice), choice)

\* the file-list quick pick answered with a file: showFileDiff opens the
\* side-by-side view (its own failure is caught and shown as a warning)
PreviewInspect ==
    /\ preview.state = "PreviewingFileList"
    /\ \E viewOk \in BOOLEAN :
         LET out == showFileDiff(Cur, preview.repo, preview.name, preview.commit, viewOk)
         IN /\ Apply(out)
            /\ preview' = [preview EXCEPT !.state = "InspectingFile", !.inspected = TRUE,
                                          !.view = out.result]
    /\ UNCHANGED <<storeUp, now, file, confirmed, last, initial, listed, auth, sanitized, inflight>>

\* the recursive call after showFileDiff: the diff is computed again
PreviewReshow ==
    /\ preview.state = "InspectingFile"
    /\ \E diff \in DiffOutcomes :
         preview' = [preview EXCEPT !.state = AfterDiff(diff), !.diff = diff]
    /\ UNCHANGED <<deletedBranches, globalState, storeUp, branches, now, file, confirmed, last, initial, listed, auth, sanitized, inflight>>

\* one of the two binary prompts answered
PreviewConfirm ==
    /\ preview.state \in {"ConfirmNoDiff", "ConfirmDegraded"}
    /\ \E answer \in ConfirmAnswers(preview.state) :
         PreviewEnd(ConfirmResult(preview.state, answer), answer)

(***************************************************************************)
(* Handlers of the ledger                                                  *)
(***************************************************************************)
Answers == {"Yes", "No", "dismissed"}

DeleteBranch ==
    /\ Quiescent
    /\ \E r \in WorkRepos, b \in Names, force \in BOOLEAN, merged \in BOOLEAN:
         /\ Len(getDeletedBranches(deletedBranches, r)) < MaxLen
         /\ LET out == deleteBranch(Cur, r, b, force, merged, now, storeUp)
            IN /\ Apply(out)
               /\ last' = [LastOf("deleteBranch", r, b, branches[r][b], out.result, "-")
                              EXCEPT !.failed = DeleteFailure(Cur, r, b, force, merged)]
               /\ listed' = ListedPushed(r, out.deletedBranches)
    /\ preview' = IdlePreview
    /\ UNCHANGED <<now, storeUp, file, confirmed, initial, auth, sanitized, inflight>>

CreateBranch ==
    /\ Quiescent
    /\ \E r \in WorkRepos, b \in Names, c \in Commits :
         LET out == createBranch(Cur, r, b, c)
         IN /\ Apply(out)
            /\ last' = LastOf("createBranch", r, b, c, out.result, "-")
    /\ preview' = IdlePreview
    /\ UNCHANGED <<now, storeUp, file, confirmed, initial, listed, auth, sanitized, inflight>>

RestoreBranch ==
    /\ Quiescent
    /\ \E r \in WorkRepos, b \in Names, c \in Commits, gitOk \in BOOLEAN:
         LET out == restoreBranch(Cur, r, b, c, gitOk, storeUp)
         IN /\ Apply(out)
            /\ last' = [LastOf("restoreBranch", r, b, c, out.result, "-")
                           EXCEPT !.failed = RestoreFailure(Cur, r, b, gitOk)]
            /\ listed' = IF out.result = "ok" THEN ListedReplaced({r}) ELSE listed
    /\ preview' = IdlePreview
    /\ UNCHANGED <<now, storeUp, file, confirmed, initial, auth, sanitized, inflight>>

\* a caller (the tree view of deletedBranchesProvider.js, line 62) asks for
\* the deletions of a repository and keeps the array it gets
GetDeletedBranches ==
    /\ Quiescent
    /\ \E r \in Repos :
         /\ listed' = ListOf(deletedBranches, r)
         /\ last' = LastOf("getDeletedBranches", r, "-", "-", "ok", "-")
    /\ preview' = IdlePreview
    /\ UNCHANGED <<deletedBranches, globalState, storeUp, branches, now, file, confirmed, initial, auth, sanitized, inflight>>

\* the caller removes the first element of the array it holds (shift()); an
\* array that is the Map's entry is changed in the Map, and nothing is saved
CallerShiftsList ==
    /\ Quiescent
    /\ listed.recs # <<>>
    /\ listed' = [listed EXCEPT !.recs = Tail(listed.recs)]
    /\ deletedBranches' = IF listed.alias
                          THEN [deletedBranches EXCEPT ![listed.repo] = Arr(Tail(listed.recs))]
                          ELSE deletedBranches
    /\ last' = LastOf("shift", listed.repo, "-", "-", "ok", "-")
    /\ preview' = IdlePreview
    /\ UNCHANGED <<globalState, storeUp, branches, now, file, confirmed, initial, auth, sanitized, inflight>>

ShowDeletedBranches ==
    /\ Quiescent
    /\ \E r \in WorkRepos \cup {NoRepo}, pick \in 0..(MaxLen + 1), confirm \in Answers,
          gitOk \in BOOLEAN:
         LET deleted == IF r = NoRepo THEN <<>> ELSE getDeletedBranches(deletedBranches, r)
             out == showDeletedBranches(Cur, r, pick, confirm, gitOk, storeUp)
         IN /\ pick <= Len(deleted)
            /\ (pick = 0) = (confirm = "dismissed")
            /\ Apply(out)
            /\ last' = LastOf("showDeletedBranches", r,
                              IF pick > 0 THEN deleted[pick].name ELSE "-",
                              IF pick > 0 THEN deleted[pick].commit ELSE "-",
                              out.result, IF pick = 0 THEN "dismissed" ELSE confirm)
            /\ listed' = IF out.result = "restored" THEN ListedReplaced({r}) ELSE listed
    /\ preview' = IdlePreview
    /\ UNCHANGED <<now, storeUp, file, confirmed, initial, auth, sanitized, inflight>>

\* restoreFromReflog in a repository whose reflog is one of `logs`
RestoreFromReflogOf(logs) ==
    /\ Quiescent
    /\ \E r \in WorkRepos \cup {NoRepo}, lines \in logs :
         /\ (r = NoRepo) => (lines = <<>>)
         /\ \E deletions \in {IF r = NoRepo THEN <<>> ELSE ScanReflog(lines)} :
              \E pick \in 0..Len(deletions), confirm \in Answers, gitOk \in BOOLEAN :
                LET out == restoreFromReflog(Cur, r, deletions, pick, confirm, gitOk, storeUp)
                IN /\ (pick = 0) = (confirm = "dismissed")
                   /\ Apply(out)
                   /\ last' = [LastOf("restoreFromReflog", r,
                                      IF pick > 0 THEN deletions[pick].name ELSE "-",
                                      IF pick > 0 THEN deletions[pick].commit ELSE "-",
                                      out.result, IF pick = 0 THEN "dismissed" ELSE confirm)
                                  EXCEPT !.reflog = lines, !.candidates = deletions]
                   /\ listed' = IF out.result = "restored" THEN ListedReplaced({r}) ELSE listed
    /\ preview' = IdlePreview
    /\ UNCHANGED <<now, storeUp, file, confirmed, initial, auth, sanitized, inflight>>

RestoreFromReflog == RestoreFromReflogOf(ShortReflogs)

(***************************************************************************)
(* importDeletionHistory                                                   *)
(***************************************************************************)
\* An import document after JSON.parse: `version` is "1.0", "absent" (no such
\* field), "empty" (a falsy value such as "") or "malformed" (a truthy value
\* that is no version string, such as 7); `kind` tells what deletionHistory
\* is: "object" (a map from repository to entry), "absent", or "number" (a
\* truthy value that is no object, such as 5); a file that does not parse
\* has kind "unparsable".
Versions == {"1.0", "absent", "empty", "malformed"}

Unparsable == [version |-> "-", kind |-> "unparsable", entries |-> EmptyMap]

ImportRecords ==
    {Rec("b1", "c1", 0, "extension"), Rec("b1", "c1", 0, "reflog"), Rec("b2", "c1", 0, "extension")}

RECURSIVE TotalRecs(_, _)
TotalRecs(m, rs) ==
    IF rs = {} THEN 0
    ELSE LET r == CHOOSE x \in rs : TRUE
         IN Len(m[r].recs) + TotalRecs(m, rs \ {r})

\* the maps a document can carry: per repository no entry, null, or an array
Histories ==
    {h \in [Repos -> {Absent, Null} \cup {Arr(q) : q \in SeqsUpTo(ImportRecords, MaxDocRecs)}] :
        TotalRecs(h, Repos) <= MaxDocRecs}

Documents ==
    [version : {"1.0"}, kind : {"object"}, entries : Histories]
    \cup [version : Versions \ {"1.0"}, kind : {"object"},
          entries : {h \in Histories : h["r2"] = Absent /\ h["r1"].kind = "seq"}]
    \cup [version : {"1.0"}, kind : {"absent", "number"}, entries : {EmptyMap}]

\* line 914: if (!uris || uris.length === 0) return
NoFile(uris) == uris = "none"

\* line 919: !importData.version || !importData.deletionHistory
InvalidFormat(doc) == doc.version \in {"absent", "empty"} \/ doc.kind = "absent"

\* NoStrategy without the early return
NoStrategyIgnored(answer) == FALSE

\* line 932: if (!mergeOption) return
NoStrategy(answer) == answer = "dismissed"

\* ClearForReplace without the clear
ClearNever(m, strategy) == m

\* lines 934-936: Replace clears the Map before the loop
ClearForReplace(m, strategy) == IF strategy = "replace" THEN EmptyMap ELSE m

\* AlreadyTracked finding nothing
AlreadyTrackedNever(existing, deletion) == FALSE

\* AlreadyTracked comparing whole records
AlreadyTrackedWholeRecord(existing, deletion) ==
    \E i \in 1..Len(existing) : existing[i] = deletion

\* lines 947-949: existing.some(e => e.name === deletion.name && e.commit === deletion.commit)
AlreadyTracked(existing, deletion) ==
    \E i \in 1..Len(existing) :
        existing[i].name = deletion.name /\ existing[i].commit = deletion.commit

\* ImportEntry with Merge set aside: the document's array is adopted whatever
\* the Map holds
ImportEntryOverwrites(acc, r, e, strategy) ==
    IF acc.threw \/ e.kind = "absent" THEN acc
    ELSE IF e.kind = "null"
         THEN [m |-> [acc.m EXCEPT ![r] = Null], count |-> acc.count, threw |-> TRUE]
         ELSE [m |-> [acc.m EXCEPT ![r] = e], count |-> acc.count + Len(e.recs), threw |-> FALSE]

\* one iteration of the loop of lines 940-960 on the entry e of repository r;
\* acc.threw tells that an earlier iteration threw.  Spreading or iterating
\* null throws before the Map is written; in the else branch the Map is
\* written before null.length throws.
ImportEntry(acc, r, e, strategy) ==
    IF acc.threw \/ e.kind = "absent" THEN acc
    ELSE IF strategy = "merge" /\ Has(acc.m, r)
    THEN IF acc.m[r].kind = "null" \/ e.kind = "null"
         THEN [acc EXCEPT !.threw = TRUE]
         ELSE LET existing == acc.m[r].recs
                  added == SelectSeq(e.recs, LAMBDA d : ~AlreadyTracked(existing, d))
              IN [m |-> [acc.m EXCEPT ![r] = Arr(existing \o added)],
                  count |-> acc.count + Len(added), threw |-> FALSE]
    ELSE IF e.kind = "null"
         THEN [m |-> [acc.m EXCEPT ![r] = Null], count |-> acc.count, threw |-> TRUE]
         ELSE [m |-> [acc.m EXCEPT ![r] = e], count |-> acc.count + Len(e.recs), threw |-> FALSE]

RECURSIVE ImportEntries(_, _, _, _)
ImportEntries(acc, entries, strategy, i) ==
    IF i > Len(RepoOrder) THEN acc
    ELSE ImportEntries(ImportEntry(acc, RepoOrder[i], entries[RepoOrder[i]], strategy),
                       entries, strategy, i + 1)

\* the iteration on entry e throws when the Map holds m for the repository
ImportThrows(m, e, strategy) ==
    /\ e.kind # "absent"
    /\ e.kind = "null" \/ (strategy = "merge" /\ m.kind = "null")

\* the repositories whose array is another object after the import: all of
\* them after the clear of Replace, and in any case those whose iteration
\* was reached and called Map.set (lines 954 and 956)
ImportWrites(m, doc, answer, asked) ==
    IF ~asked \/ answer \notin {"merge", "replace"} THEN {}
    ELSE {r \in Repos :
            \/ answer = "replace"
            \/ \E i \in 1..Len(RepoOrder) :
                 /\ RepoOrder[i] = r /\ doc.entries[r].kind = "seq"
                 /\ \A j \in 1..i :
                       ~ImportThrows(m[RepoOrder[j]], doc.entries[RepoOrder[j]], answer)}

ImportOut(m, st, br, res, n) ==
    [deletedBranches |-> m, globalState |-> st, branches |-> br, result |-> res, count |-> n]

\* importDeletionHistory: file dialog, read and parse, format check, strategy
\* prompt, Replace's clear, the loop over the document's repositories, save.
\* An exception leaves through the catch, which raises it again: the Map
\* keeps what the loop had written and nothing is saved.
importDeletionHistory(s, uris, doc, answer, saveOk) ==
    IF NoFile(uris) THEN ImportOut(s.deletedBranches, s.globalState, s.branches, "declined", 0)
    ELSE IF doc.kind = "unparsable" \/ InvalidFormat(doc)
    THEN ImportOut(s.deletedBranches, s.globalState, s.branches, "error", 0)
    ELSE IF NoStrategy(answer)
    THEN ImportOut(s.deletedBranches, s.globalState, s.branches, "declined", 0)
    ELSE LET start == [m |-> ClearForReplace(s.deletedBranches, answer), count |-> 0, threw |-> FALSE]
             acc == ImportEntries(start, doc.entries, answer, 1)
         IN IF acc.threw THEN ImportOut(acc.m, s.globalState, s.branches, "error", 0)
            ELSE ImportOut(acc.m, saveDeletionHistory(acc.m, s.globalState, saveOk),
                           s.branches, "ok", acc.count)

\* importDeletionHistory on a file that holds one of `docs`, the strategy
\* prompt answered with one of `choices` ("-": the prompt is not reached)
ImportDeletionHistoryOf(docs, choices) ==
    /\ Quiescent
    /\ \E uris \in {"file", "none"}, doc \in docs, answer \in choices :
         LET asked == ~NoFile(uris) /\ doc.kind # "unparsable" /\ ~InvalidFormat(doc)
             out == importDeletionHistory(Cur, uris, doc, answer, storeUp)
         IN /\ NoFile(uris) => doc = Unparsable
            /\ asked = (answer # "-")
            /\ Apply(out)
            /\ last' = [op |-> "importDeletionHistory", repo |-> "-", name |-> "-", commit |-> "-",
                        result |-> out.result,
                        answer |-> IF NoFile(uris) THEN "no file" ELSE answer,
                        strategy |-> IF answer \in {"merge", "replace"} THEN answer ELSE "-",
                        doc |-> IF NoFile(uris) THEN NoDoc ELSE doc, count |-> out.count,
                        days |-> 0, reflog |-> <<>>, candidates |-> <<>>,
                        lagged |-> globalState # deletedBranches, failed |-> "-"]
            /\ listed' = ListedReplaced(ImportWrites(deletedBranches, doc, answer, asked))
    /\ preview' = IdlePreview
    /\ UNCHANGED <<now, storeUp, file, confirmed, initial, auth, sanitized, inflight>>

ImportDeletionHistory ==
    ImportDeletionHistoryOf(Documents \cup {Unparsable}, {"merge", "replace", "dismissed", "-"})

(***************************************************************************)
(* exportDeletionHistory                                                   *)
(***************************************************************************)
\* ExportedHistory leaving out the repositories whose array is empty
ExportedHistoryNonEmpty(m) ==
    [r \in Repos |-> IF m[r].kind = "seq" /\ m[r].recs = <<>> THEN Absent ELSE m[r]]

\* lines 865-868: history[repoPath] = deletions, for every entry of the Map
ExportedHistory(m) == [r \in Repos |-> IF Has(m, r) THEN m[r] ELSE Absent]

\* exportData without a version
exportDataUnversioned(m, t) ==
    [version |-> "absent", exportedAt |-> t, deletionHistory |-> ExportedHistory(m)]

\* lines 870-874
exportData(m, t) ==
    [version |-> "1.0", exportedAt |-> t, deletionHistory |-> ExportedHistory(m)]

\* JSON.stringify of the export data: the members of deletionHistory in the
\* order of the Map's keys; a record is made of strings, which are written
\* as they are
Stringify(data) ==
    [version |-> data.version, exportedAt |-> data.exportedAt,
     members |-> LET keys == SelectSeq(RepoOrder, LAMBDA r : Has(data.deletionHistory, r))
                 IN [i \in 1..Len(keys) |-> <<keys[i], data.deletionHistory[keys[i]]>>]]

\* JSON.parse of a file written by the export, as importDeletionHistory
\* reads it
Parse(text) ==
    [version |-> text.version, kind |-> "object",
     entries |-> [r \in Repos |->
                    IF \E i \in 1..Len(text.members) : text.members[i][1] = r
                    THEN text.members[CHOOSE i \in 1..Len(text.members) : text.members[i][1] = r][2]
                    ELSE Absent]]

\* exportDeletionHistory: build and stringify the document, save dialog,
\* writeFile; a failing write is raised, a cancelled dialog ends the export
ExportDeletionHistory ==
    /\ Quiescent
    /\ \E uri \in {"chosen", "cancelled"}, writeOk \in BOOLEAN :
         /\ (uri = "cancelled") => writeOk
         /\ file' = IF uri = "chosen" /\ writeOk
                    THEN Stringify(exportData(deletedBranches, now)) ELSE file
         /\ last' = LastOf("exportDeletionHistory", "-", "-", "-",
                           IF uri = "cancelled" THEN "declined"
                           ELSE IF writeOk THEN "ok" ELSE "error",
                           uri)
    /\ preview' = IdlePreview
    /\ UNCHANGED <<deletedBranches, globalState, storeUp, branches, now, confirmed, initial, listed, auth, sanitized, inflight>>

(***************************************************************************)
(* sanitizeBranchName: strings are sequences of characters                 *)
(***************************************************************************)
ledgerVars ==
    <<deletedBranches, globalState, storeUp, branches, now, file, preview, confirmed, last,
      initial, listed, inflight>>

\* .substring(0, 50)
NameLimit == 50

NotRun == <<"?">>

NoName == [input |-> <<>>, output |-> NotRun]

\* .toLowerCase(), "A" standing for the upper-case letters
ToLowerCase(str) == [i \in 1..Len(str) |-> IF str[i] = "A" THEN "a" ELSE str[i]]

\* str without the characters c that follow a character c
RECURSIVE SqueezeFrom(_, _, _)
SqueezeFrom(str, c, i) ==
    IF i > Len(str) THEN <<>>
    ELSE IF str[i] = c /\ i > 1 /\ str[i - 1] = c THEN SqueezeFrom(str, c, i + 1)
    ELSE <<str[i]>> \o SqueezeFrom(str, c, i + 1)

\* .replace(/\s+/g, '-'), " " standing for the white space
SpacesToDash(str) ==
    LET t == SqueezeFrom(str, " ", 1)
    IN [i \in 1..Len(t) |-> IF t[i] = " " THEN "-" ELSE t[i]]

\* .replace(/[^a-z0-9-]/g, ''), "a" standing for the lower-case letters and
\* "1" for the digits
KeepAllowed(str) == SelectSeq(str, LAMBDA c : c \in {"a", "1", "-"})

\* .replace(/-+/g, '-')
CollapseDashes(str) == SqueezeFrom(str, "-", 1)

\* .replace(/^-|-$/g, ''): one dash at the start and one at the end
TrimDash(str) ==
    LET t == IF Len(str) > 0 /\ str[1] = "-" THEN Tail(str) ELSE str
    IN IF Len(t) > 0 /\ t[Len(t)] = "-" THEN SubSeq(t, 1, Len(t) - 1) ELSE t

\* .substring(0, n)
Substring(str, n) == SubSeq(str, 1, IF Len(str) < n THEN Len(str) ELSE n)

\* lines 632-638, in the order of the chain
sanitizeBranchName(str) ==
    Substring(TrimDash(CollapseDashes(KeepAllowed(SpacesToDash(ToLowerCase(str))))), NameLimit)

\* n times the character c
Rep(c, n) == [i \in 1..n |-> c]

\* titles made of a run of letters around the limit, with other characters
\* before, after and between
SanitizeInputs ==
    {pre \o Rep("a", n) \o mid \o post :
        pre \in {<<>>, <<"-">>, <<" ">>, <<"_">>, <<"A", " ", " ">>},
        n \in {0, 1, NameLimit - 2, NameLimit - 1, NameLimit},
        mid \in {<<>>, <<"-">>, <<" ", "-">>, <<"-", "_", "-">>, <<"!">>},
        post \in {<<>>, <<"1">>, <<"A", "-">>, <<"a", " ">>}}

SanitizeBranchName ==
    /\ sanitized.output = NotRun
    /\ sanitized' = [sanitized EXCEPT !.output = sanitizeBranchName(sanitized.input)]
    /\ UNCHANGED <<ledgerVars, auth>>

(***************************************************************************)
(* GiteaAuth: profiles and the cache of GET responses                      *)
(***************************************************************************)
\* the profiles a user can configure; work and personal are two accounts of
\* one instance
ProfileNames == {"work", "personal", "other"}

ProfileOf(name) ==
    CASE name = "work" -> [instanceUrl |-> "u1", authToken |-> "t1"]
      [] name = "personal" -> [instanceUrl |-> "u1", authToken |-> "t2"]
      [] OTHER -> [instanceUrl |-> "u2", authToken |-> "t3"]

Urls == {"u1", "u2"}

Endpoints == {"/api/v1/user", "/api/v1/user/repos"}

\* new CacheManager(1000): the time to live, in milliseconds
CacheTtl == 1000

\* time advances by steps of TickMs milliseconds up to MaxTime
TickMs == 600

MaxTime == 1800

NoEntry == [value |-> <<>>, by |-> "-", timestamp |-> 0 - 1]

NoAnswer == [result |-> "-", value |-> <<>>, cached |-> FALSE, by |-> "-"]

\* the ledger's specifications leave GiteaAuth aside
NoAuth ==
    [profiles |-> {}, activeProfile |-> "-", instanceUrl |-> "-", authToken |-> "-",
     cache |-> [k \in Urls \X Endpoints |-> NoEntry], time |-> 0, answer |-> NoAnswer]

\* what the instance answers to a GET of the endpoint with the token
Response(url, token, endpoint) == <<url, token, endpoint>>

\* CacheManager.get: the item when there is one and it has not expired
CacheHit(a, key) ==
    a.cache[key] # NoEntry /\ ~(a.time - a.cache[key].timestamp > CacheTtl)

\* makeRequest: a GET is answered from the cache when CacheManager.get
\* returns an item (an expired item is deleted by the get); otherwise the
\* request goes to the instance with the current token and a GET response
\* is stored under instanceUrl + endpoint.  `by` remembers the profile that
\* was active when the item was stored.
makeRequest(a, method, endpoint, netOk) ==
    LET key == <<a.instanceUrl, endpoint>>
        value == Response(a.instanceUrl, a.authToken, endpoint)
    IN IF method = "GET" /\ CacheHit(a, key)
       THEN [a EXCEPT !.answer = [result |-> "ok", value |-> a.cache[key].value,
                                  cached |-> TRUE, by |-> a.cache[key].by]]
       ELSE LET kept == IF method = "GET" THEN [a.cache EXCEPT ![key] = NoEntry] ELSE a.cache
            IN IF netOk
               THEN [a EXCEPT !.cache = IF method = "GET"
                                        THEN [kept EXCEPT ![key] = [value |-> value,
                                                                    by |-> a.activeProfile,
                                                                    timestamp |-> a.time]]
                                        ELSE kept,
                              !.answer = [result |-> "ok", value |-> value, cached |-> FALSE,
                                          by |-> a.activeProfile]]
               ELSE [a EXCEPT !.cache = kept,
                              !.answer = [NoAnswer EXCEPT !.result = "error"]]

\* validateCredentials: GET /api/v1/user through makeRequest
validateCredentials(a, netOk) == makeRequest(a, "GET", "/api/v1/user", netOk)

\* the assignments of lines 271-274 and 217-219
Activate(a, name) ==
    [a EXCEPT !.activeProfile = name, !.instanceUrl = ProfileOf(name).instanceUrl,
              !.authToken = ProfileOf(name).authToken, !.answer = NoAnswer]

\* switchProfile: the quick pick (selected = "-": dismissed), the early
\* return on the active profile, the assignments, saveProfiles (a failure
\* leaves through the catch with the profile already switched),
\* validateCredentials
switchProfile(a, selected, saveOk, netOk) ==
    IF a.profiles = {} \/ selected = "-" \/ selected = a.activeProfile
    THEN [a EXCEPT !.answer = NoAnswer]
    ELSE IF ~saveOk THEN Activate(a, selected)
    ELSE validateCredentials(Activate(a, selected), netOk)

\* addProfile: the three input boxes (name = "-": one of them dismissed),
\* the new profile, saveProfiles, the Switch / Keep Current message
addProfile(a, name, saveOk, switchNow, netOk) ==
    IF name = "-" THEN [a EXCEPT !.answer = NoAnswer]
    ELSE LET added == [a EXCEPT !.profiles = @ \cup {name}, !.answer = NoAnswer]
         IN IF ~saveOk \/ switchNow # "Switch" THEN added
            ELSE validateCredentials(Activate(added, name), netOk)

MakeRequest ==
    /\ \E method \in {"GET", "POST"}, endpoint \in Endpoints, netOk \in BOOLEAN :
         auth' = makeRequest(auth, method, endpoint, netOk)
    /\ UNCHANGED <<ledgerVars, sanitized>>

SwitchProfile ==
    /\ \E selected \in auth.profiles \cup {"-"}, saveOk \in BOOLEAN, netOk \in BOOLEAN :
         auth' = switchProfile(auth, selected, saveOk, netOk)
    /\ UNCHANGED <<ledgerVars, sanitized>>

AddProfile ==
    /\ \E name \in (ProfileNames \ auth.profiles) \cup {"-"}, saveOk \in BOOLEAN,
          switchNow \in {"Switch", "Keep Current", "dismissed"}, netOk \in BOOLEAN :
         auth' = addProfile(auth, name, saveOk, switchNow, netOk)
    /\ UNCHANGED <<ledgerVars, sanitized>>

\* time passes
Tick ==
    /\ auth.time < MaxTime
    /\ auth' = [auth EXCEPT !.time = @ + TickMs, !.answer = NoAnswer]
    /\ UNCHANGED <<ledgerVars, sanitized>>

(***************************************************************************)
(* Spec: the extension from construction, with an empty store              *)
(***************************************************************************)
InitBranches == [r \in WorkRepos |-> [b \in Names |-> IF b = "b1" THEN "c1" ELSE "c2"]]

Init ==
    /\ deletedBranches = EmptyMap
    /\ globalState = EmptyMap
    /\ storeUp = TRUE
    /\ branches = InitBranches
    /\ now = 0
    /\ file = NoDoc
    /\ preview = IdlePreview
    /\ confirmed = {}
    /\ last = LastOf("none", "-", "-", "-", "-", "-")
    /\ initial = Given(EmptyMap, <<>>)
    /\ listed = NoList
    /\ auth = NoAuth
    /\ sanitized = NoName
    /\ inflight = NoCalls

Next ==
    \/ DeleteBranch
    \/ CreateBranch
    \/ RestoreBranch
    \/ ShowDeletedBranches
    \/ RestoreFromReflog

Spec == Init /\ [][Next]_vars

(***************************************************************************)
(* SpecPreview: deletions, the two restore flows and showDiffPreview       *)
(***************************************************************************)
NextPreview ==
    \/ DeleteBranch
    \/ ShowDeletedBranches
    \/ RestoreFromReflog
    \/ ShowDiffPreview
    \/ PreviewChoose
    \/ PreviewInspect
    \/ PreviewReshow
    \/ PreviewConfirm

SpecPreview == Init /\ [][NextPreview]_vars

(***************************************************************************)
(* SpecPreviewLive: showDiffPreview with a user who answers every prompt   *)
(* and does not pick files for ever.  Every await of the flow resolves:    *)
(* the binary prompts and the quick pick by an answer or a dismissal,      *)
(* vscode.diff by opening or by throwing into the catch of showFileDiff.   *)
(***************************************************************************)
NextPreviewLive ==
    \/ ShowDiffPreview
    \/ PreviewChoose
    \/ PreviewInspect
    \/ PreviewReshow
    \/ PreviewConfirm

\* the recursive call is made once showFileDiff has returned; an open binary
\* prompt is answered; a file list that is shown again and again is at some
\* time answered with something that is not a file
SpecPreviewLive ==
    /\ Init
    /\ [][NextPreviewLive]_vars
    /\ WF_vars(PreviewReshow)
    /\ WF_vars(PreviewConfirm)
    /\ SF_vars(PreviewChoose)

(***************************************************************************)
(* SpecHandlers: one handler, started in any ledger of at most             *)
(* MaxLedgerRecs records                                                   *)
(***************************************************************************)
Ledgers ==
    {m \in [Repos -> {Absent} \cup {Arr(q) : q \in SeqsUpTo(ImportRecords, MaxLedgerRecs)}] :
        TotalRecs(m, Repos) <= MaxLedgerRecs}

\* a tracked branch is gone from the working copy, any other one exists
BranchesOf(m) ==
    [r \in WorkRepos |-> [b \in Names |->
        IF \E i \in 1..Len(getDeletedBranches(m, r)) : getDeletedBranches(m, r)[i].name = b
        THEN NoCommit ELSE InitBranches[r][b]]]

InitHandlers ==
    /\ deletedBranches \in Ledgers
    /\ globalState = deletedBranches
    /\ storeUp = TRUE
    /\ branches = BranchesOf(deletedBranches)
    /\ now = 0
    /\ file = NoDoc
    /\ preview = IdlePreview
    /\ confirmed = {}
    /\ last = LastOf("none", "-", "-", "-", "-", "-")
    /\ initial = Given(deletedBranches, <<>>)
    /\ listed = NoList
    /\ auth = NoAuth
    /\ sanitized = NoName
    /\ inflight = NoCalls

Fresh == last.op = "none"

OnceImportDeletionHistory == Fresh /\ ImportDeletionHistory

OnceShowDeletedBranches == Fresh /\ ShowDeletedBranches

OnceRestoreFromReflog == Fresh /\ RestoreFromReflog

OnceShowDiffPreview == Fresh /\ ShowDiffPreview

NextHandlers ==
    \/ OnceImportDeletionHistory
    \/ OnceShowDeletedBranches
    \/ OnceRestoreFromReflog
    \/ OnceShowDiffPreview
    \/ PreviewChoose
    \/ PreviewInspect
    \/ PreviewReshow
    \/ PreviewConfirm

SpecHandlers == InitHandlers /\ [][NextHandlers]_vars

(***************************************************************************)
(* SpecLoad: activation on a store that holds a history, then deletions    *)
(* and restores                                                            *)
(***************************************************************************)
Today == 100

\* the retention setting: not set, 5 days, 15 days
Configs == {{}, {5}, {15}}

MaxStoreRecs == 2

\* deleted 95, 90 and 10 days ago, and with a date that does not parse
StoreRecords ==
    {Rec("b1", "c1", Today - 95, "extension"), Rec("b1", "c1", Today - 90, "extension"),
     Rec("b1", "c1", Today - 10, "extension"), Rec("b2", "c2", UnknownDate, "extension")}

\* what the store can hold at activation: per repository no entry, null (left
\* there by a save after an import that failed) or an array
Stores ==
    {m \in [Repos -> {Absent, Null} \cup {Arr(q) : q \in SeqsUpTo(StoreRecords, MaxStoreRecs)}] :
        TotalRecs(m, Repos) <= MaxStoreRecs}

InitLoad ==
    /\ deletedBranches = EmptyMap
    /\ globalState \in Stores
    /\ storeUp = TRUE
    /\ branches = BranchesOf(globalState)
    /\ now = Today
    /\ file = NoDoc
    /\ preview = IdlePreview
    /\ confirmed = {}
    /\ last = LastOf("none", "-", "-", "-", "-", "-")
    /\ initial = Given(globalState, <<>>)
    /\ listed = NoList
    /\ auth = NoAuth
    /\ sanitized = NoName
    /\ inflight = NoCalls

\* line 305: the keys the constructor registers with setKeysForSync
KeysForSync == {"gitea.deletedBranches"}

\* lines 316 and 336: the key of globalState.get and globalState.update
StoreKey == "giteaDeletedBranches"

\* the memento as a whole: the value st under the key of the load and the
\* save, nothing under any other key
Memento(st) == [k \in KeysForSync \cup {StoreKey} |-> IF k = StoreKey THEN st ELSE EmptyMap]

\* the part of the memento that Settings Sync carries to other machines
SyncedPart(st) == [k \in KeysForSync |-> Memento(st)[k]]

\* the constructor: new Map, setKeysForSync, loadDeletionHistory
Construct ==
    /\ Fresh
    /\ \E read \in {"ok", "fails"}, cfg \in Configs :
         /\ deletedBranches' = loadDeletionHistory(globalState, read, now, cfg)
         /\ last' = [LastOf("loadDeletionHistory", "-", "-", "-", "ok", read)
                        EXCEPT !.days = retentionDays(cfg)]
    /\ preview' = IdlePreview
    /\ listed' = ListedReplaced(Repos)
    /\ UNCHANGED <<globalState, storeUp, branches, now, file, confirmed, initial, auth, sanitized, inflight>>

Constructed == last.op # "none"

ThenDeleteBranch == Constructed /\ DeleteBranch

ThenRestoreBranch == Constructed /\ RestoreBranch

NextLoad ==
    \/ Construct
    \/ ThenDeleteBranch
    \/ ThenRestoreBranch

SpecLoad == InitLoad /\ [][NextLoad]_vars

(***************************************************************************)
(* SpecStore: deletions, restores and imports while the store's writes     *)
(* fail and work again                                                     *)
(***************************************************************************)
\* globalState.update starts to reject
StoreFails ==
    /\ storeUp
    /\ storeUp' = FALSE
    /\ UNCHANGED <<deletedBranches, globalState, branches, now, file, preview, confirmed,
                   last, initial, listed, auth, sanitized, inflight>>

\* globalState.update works again
StoreRecovers ==
    /\ ~storeUp
    /\ storeUp' = TRUE
    /\ UNCHANGED <<deletedBranches, globalState, branches, now, file, preview, confirmed,
                   last, initial, listed, auth, sanitized, inflight>>

StoreDocuments ==
    [version : {"1.0"}, kind : {"object"},
     entries : {[r \in Repos |-> IF r = "r1" THEN Arr(<<Rec("b2", "c1", 0, "extension")>>)
                                 ELSE Absent],
                [r \in Repos |-> IF r = "r2" THEN Arr(<<Rec("b1", "c1", 0, "extension")>>)
                                 ELSE Absent]}]

ImportStoreDocument == ImportDeletionHistoryOf(StoreDocuments, {"merge", "replace"})

NextStore ==
    \/ DeleteBranch
    \/ RestoreBranch
    \/ ImportStoreDocument
    \/ StoreFails
    \/ StoreRecovers

SpecStore == Init /\ [][NextStore]_vars

(***************************************************************************)
(* SpecTransient: deletions, imports and restoreFromReflog while the       *)
(* store's writes fail and work again                                      *)
(***************************************************************************)
\* a merge of a document that holds one record of the working repository
MergeStoreDocument ==
    ImportDeletionHistoryOf({d \in StoreDocuments : Has(d.entries, "r1")}, {"merge"})

NextTransient ==
    \/ DeleteBranch
    \/ RestoreFromReflog
    \/ MergeStoreDocument
    \/ StoreFails
    \/ StoreRecovers

SpecTransient == Init /\ [][NextTransient]_vars

(***************************************************************************)
(* SpecList: a caller holds the array of getDeletedBranches while branches *)
(* are deleted, created and restored                                       *)
(***************************************************************************)
NextList ==
    \/ DeleteBranch
    \/ CreateBranch
    \/ RestoreBranch
    \/ GetDeletedBranches
    \/ CallerShiftsList

SpecList == Init /\ [][NextList]_vars

(***************************************************************************)
(* SpecPrompt: showDeletedBranches waits at its Yes/No prompt while other  *)
(* handlers run                                                            *)
(***************************************************************************)
\* the ledger tracks the record the selection was made from
Tracked(m, sel) ==
    \E i \in 1..Len(getDeletedBranches(m, sel.repo)) :
        /\ getDeletedBranches(m, sel.repo)[i].name = sel.name
        /\ getDeletedBranches(m, sel.repo)[i].commit = sel.commit

\* lines 755-761: the Yes/No prompt answered for the selection sel, which
\* holds the name and the commit of the item picked before the prompt;
\* restoreBranch is called with them as they are
confirmRestore(s, sel, confirm, gitOk, saveOk) ==
    IF confirm # "Yes" THEN Out(s.deletedBranches, s.globalState, s.branches, "declined")
    ELSE LET out == restoreBranch(s, sel.repo, sel.name, sel.commit, gitOk, saveOk)
         IN [out EXCEPT !.result = IF out.result = "ok" THEN "restored" ELSE "error"]

\* showDeletedBranches up to its second prompt: the list of line 735 and the
\* quick pick of line 750 answered with an item
SelectDeletedBranch ==
    /\ Quiescent
    /\ inflight.selection = NoSelection
    /\ \E r \in WorkRepos, pick \in 1..MaxLen :
         LET deleted == getDeletedBranches(deletedBranches, r)
         IN /\ pick <= Len(deleted)
            /\ inflight' = [inflight EXCEPT !.selection = [repo |-> r, name |-> deleted[pick].name,
                                                            commit |-> deleted[pick].commit]]
            /\ last' = LastOf("showDeletedBranches", r, deleted[pick].name, deleted[pick].commit,
                              "pending", "-")
    /\ preview' = IdlePreview
    /\ UNCHANGED <<deletedBranches, globalState, storeUp, branches, now, file, confirmed,
                   initial, listed, auth, sanitized>>

\* the Yes/No prompt of the open showDeletedBranches is answered
ConfirmDeletedBranch ==
    /\ Quiescent
    /\ inflight.selection # NoSelection
    /\ \E confirm \in Answers, gitOk \in BOOLEAN :
         LET sel == inflight.selection
             out == confirmRestore(Cur, sel, confirm, gitOk, storeUp)
         IN /\ Apply(out)
            /\ last' = LastOf("showDeletedBranches", sel.repo, sel.name, sel.commit,
                              out.result, confirm)
            /\ listed' = IF out.result = "restored" THEN ListedReplaced({sel.repo}) ELSE listed
    /\ inflight' = [inflight EXCEPT !.selection = NoSelection]
    /\ preview' = IdlePreview
    /\ UNCHANGED <<now, storeUp, file, confirmed, initial, auth, sanitized>>

NextPrompt ==
    \/ DeleteBranch
    \/ RestoreBranch
    \/ ImportStoreDocument
    \/ SelectDeletedBranch
    \/ ConfirmDeletedBranch

SpecPrompt == Init /\ [][NextPrompt]_vars

(***************************************************************************)
(* SpecAwait: deleteBranch, restoreBranch and importDeletionHistory called *)
(* from the event loop while the writes of earlier calls are under way.    *)
(* A handler runs without interruption up to its call of                   *)
(* globalState.update (execSync is synchronous and saveDeletionHistory     *)
(* has no await before the update); it returns when its write completes.   *)
(* The memento takes the updates of a key in the order of the calls.       *)
(***************************************************************************)
\* writes that can be under way at a time
MaxWrites == 2

\* a handler has run up to its await: `written` tells whether it has called
\* globalState.update, out.globalState being the object it handed over
Suspend(out, written) ==
    /\ deletedBranches' = out.deletedBranches
    /\ branches' = out.branches
    /\ inflight' = [inflight EXCEPT
                      !.writes = IF written THEN Append(@, out.globalState) ELSE @,
                      !.overlap = @ \/ inflight.writes # <<>>]
    /\ UNCHANGED globalState

\* deleteBranch up to `await this.saveDeletionHistory()`
DeleteBranchCall ==
    /\ Quiescent
    /\ Len(inflight.writes) < MaxWrites
    /\ \E r \in WorkRepos, b \in Names, force \in BOOLEAN, merged \in BOOLEAN:
         /\ Len(getDeletedBranches(deletedBranches, r)) < MaxLen
         /\ LET out == deleteBranch(Cur, r, b, force, merged, now, TRUE)
            IN /\ Suspend(out, out.result = "ok")
               /\ last' = [LastOf("deleteBranch", r, b, branches[r][b], out.result, "-")
                              EXCEPT !.failed = DeleteFailure(Cur, r, b, force, merged)]
               /\ listed' = ListedPushed(r, out.deletedBranches)
    /\ preview' = IdlePreview
    /\ UNCHANGED <<now, storeUp, file, confirmed, initial, auth, sanitized>>

\* restoreBranch up to `await this.saveDeletionHistory()`; there is no save
\* when the repository has no Map entry
RestoreBranchCall ==
    /\ Quiescent
    /\ Len(inflight.writes) < MaxWrites
    /\ \E r \in WorkRepos, b \in Names, c \in Commits, gitOk \in BOOLEAN:
         LET out == restoreBranch(Cur, r, b, c, gitOk, TRUE)
         IN /\ Suspend(out, out.result = "ok" /\ Has(deletedBranches, r))
            /\ last' = [LastOf("restoreBranch", r, b, c, out.result, "-")
                           EXCEPT !.failed = RestoreFailure(Cur, r, b, gitOk)]
            /\ listed' = IF out.result = "ok" THEN ListedReplaced({r}) ELSE listed
    /\ preview' = IdlePreview
    /\ UNCHANGED <<now, storeUp, file, confirmed, initial, auth, sanitized>>

\* importDeletionHistory from the answer to its strategy prompt up to
\* `await this.saveDeletionHistory()`; the file was read before the prompt
ImportCall ==
    /\ Quiescent
    /\ Len(inflight.writes) < MaxWrites
    /\ \E doc \in StoreDocuments, answer \in {"merge", "replace"} :
         LET out == importDeletionHistory(Cur, "file", doc, answer, TRUE)
         IN /\ Suspend(out, out.result = "ok")
            /\ last' = [LastOf("importDeletionHistory", "-", "-", "-", out.result, answer)
                           EXCEPT !.strategy = answer, !.doc = doc, !.count = out.count]
            /\ listed' = ListedReplaced(ImportWrites(deletedBranches, doc, answer, TRUE))
    /\ preview' = IdlePreview
    /\ UNCHANGED <<now, storeUp, file, confirmed, initial, auth, sanitized>>

\* the oldest write under way completes and the handler that awaits it
\* returns
WriteCompletes ==
    /\ inflight.writes # <<>>
    /\ globalState' = saveDeletionHistory(Head(inflight.writes), globalState, storeUp)
    /\ inflight' = [inflight EXCEPT !.writes = Tail(@)]
    /\ UNCHANGED <<deletedBranches, storeUp, branches, now, file, preview, confirmed, last,
                   initial, listed, auth, sanitized>>

NextAwait ==
    \/ DeleteBranchCall
    \/ RestoreBranchCall
    \/ ImportCall
    \/ WriteCompletes

SpecAwait == Init /\ [][NextAwait]_vars

(***************************************************************************)
(* SpecAuth: GiteaAuth after initialize() has loaded the profile `work`    *)
(***************************************************************************)
InitAuth ==
    /\ deletedBranches = EmptyMap
    /\ globalState = EmptyMap
    /\ storeUp = TRUE
    /\ branches = InitBranches
    /\ now = 0
    /\ file = NoDoc
    /\ preview = IdlePreview
    /\ confirmed = {}
    /\ last = LastOf("none", "-", "-", "-", "-", "-")
    /\ initial = Given(EmptyMap, <<>>)
    /\ listed = NoList
    /\ auth = [Activate(NoAuth, "work") EXCEPT !.profiles = {"work"}]
    /\ sanitized = NoName
    /\ inflight = NoCalls

NextAuth ==
    \/ MakeRequest
    \/ SwitchProfile
    \/ AddProfile
    \/ Tick

SpecAuth == InitAuth /\ [][NextAuth]_vars

(***************************************************************************)
(* SpecSanitize: sanitizeBranchName applied to a title                     *)
(***************************************************************************)
InitSanitize ==
    /\ deletedBranches = EmptyMap
    /\ globalState = EmptyMap
    /\ storeUp = TRUE
    /\ branches = InitBranches
    /\ now = 0
    /\ file = NoDoc
    /\ preview = IdlePreview
    /\ confirmed = {}
    /\ last = LastOf("none", "-", "-", "-", "-", "-")
    /\ initial = Given(EmptyMap, <<>>)
    /\ listed = NoList
    /\ auth = NoAuth
    /\ \E str \in SanitizeInputs : sanitized = [input |-> str, output |-> NotRun]
    /\ inflight = NoCalls

NextSanitize == SanitizeBranchName

SpecSanitize == InitSanitize /\ [][NextSanitize]_vars

(***************************************************************************)
(* SpecDates: deletions and imports of documents whose records carry any   *)
(* deletedAt a JSON file can hold                                          *)
(***************************************************************************)
\* a record deleted ten days ago, one dated tomorrow, and one whose
\* deletedAt is no date (the 'Unknown date' of a reflog candidate, a
\* missing field)
DatedRecords ==
    {Rec("b2", "c1", t, "extension") : t \in {Today - 10, Today + 1, UnknownDate}}

DatedDocuments ==
    [version : {"1.0"}, kind : {"object"},
     entries : {[r \in Repos |-> IF r = "r1" THEN Arr(<<d>>) ELSE Absent] : d \in DatedRecords}]

InitDates ==
    /\ deletedBranches = EmptyMap
    /\ globalState = EmptyMap
    /\ storeUp = TRUE
    /\ branches = InitBranches
    /\ now = Today
    /\ file = NoDoc
    /\ preview = IdlePreview
    /\ confirmed = {}
    /\ last = LastOf("none", "-", "-", "-", "-", "-")
    /\ initial = Given(EmptyMap, <<>>)
    /\ listed = NoList
    /\ auth = NoAuth
    /\ sanitized = NoName
    /\ inflight = NoCalls

ImportDatedDocument == ImportDeletionHistoryOf(DatedDocuments, {"merge", "replace"})

NextDates ==
    \/ DeleteBranch
    \/ RestoreBranch
    \/ ImportDatedDocument

SpecDates == InitDates /\ [][NextDates]_vars

(***************************************************************************)
(* SpecView: the tree view of deletedBranchesProvider.js lists the         *)
(* deletions of a repository while branches are deleted and created again  *)
(* and time passes                                                         *)
(***************************************************************************)
\* the clock of the ledger's specifications stops at MaxNow
MaxNow == 2

\* deletions.find(d => d.name === name): the first record with that name
FindByName(deletions, name) ==
    deletions[CHOOSE i \in 1..Len(deletions) :
                 /\ deletions[i].name = name
                 /\ \A j \in 1..(i - 1) : deletions[j].name # name]

\* lines 106-110: the comparator of the sort, new Date(B.deletedAt) - new
\* Date(A.deletedAt), A and B being the records find() returns for the
\* names of the two items
CompareItems(deletions, a, b) ==
    FindByName(deletions, b.name).deletedAt - FindByName(deletions, a.name).deletedAt

\* Array.prototype.sort is stable: x is put behind every item it does not
\* have to precede
RECURSIVE InsertItem(_, _, _)
InsertItem(deletions, sorted, x) ==
    IF sorted = <<>> THEN <<x>>
    ELSE IF CompareItems(deletions, Head(sorted), x) <= 0
         THEN <<Head(sorted)>> \o InsertItem(deletions, Tail(sorted), x)
         ELSE <<x>> \o sorted

RECURSIVE SortItems(_, _)
SortItems(deletions, items) ==
    IF items = <<>> THEN <<>>
    ELSE InsertItem(deletions, SortItems(deletions, SubSeq(items, 1, Len(items) - 1)),
                    items[Len(items)])

\* getDeletedBranchesForRepo: one item per record, in the order of the
\* array, then the sort; an item is given by the record it shows
getDeletedBranchesForRepo(m, r) ==
    LET deletions == getDeletedBranches(m, r)
    IN SortItems(deletions, deletions)

\* the tree view asks for the children of a repository
ViewDeletedBranches ==
    /\ Quiescent
    /\ \E r \in Repos :
         last' = [LastOf("getDeletedBranchesForRepo", r, "-", "-", "ok", "-")
                     EXCEPT !.candidates = getDeletedBranchesForRepo(deletedBranches, r)]
    /\ preview' = IdlePreview
    /\ UNCHANGED <<deletedBranches, globalState, storeUp, branches, now, file, confirmed,
                   initial, listed, auth, sanitized, inflight>>

\* a day passes
Advance ==
    /\ Quiescent
    /\ now < MaxNow
    /\ now' = now + 1
    /\ UNCHANGED <<deletedBranches, globalState, storeUp, branches, file, preview, confirmed,
                   last, initial, listed, auth, sanitized, inflight>>

NextView ==
    \/ DeleteBranch
    \/ CreateBranch
    \/ ViewDeletedBranches
    \/ Advance

SpecView == Init /\ [][NextView]_vars

(***************************************************************************)
(* SpecPorting: a ledger is exported and the file is imported by an        *)
(* installation that starts with an empty store                            *)
(***************************************************************************)
InitPorting ==
    /\ deletedBranches \in Histories
    /\ globalState = deletedBranches
    /\ storeUp = TRUE
    /\ branches = BranchesOf(deletedBranches)
    /\ now = 0
    /\ file = NoDoc
    /\ preview = IdlePreview
    /\ confirmed = {}
    /\ last = LastOf("none", "-", "-", "-", "-", "-")
    /\ initial = Given(deletedBranches, <<>>)
    /\ listed = NoList
    /\ auth = NoAuth
    /\ sanitized = NoName
    /\ inflight = NoCalls

OnceExportDeletionHistory == Fresh /\ ExportDeletionHistory

\* the file is taken to an installation whose store is empty: its
\* constructor loads an empty history
ConstructElsewhere ==
    /\ last.op = "exportDeletionHistory" /\ last.result = "ok"
    /\ globalState' = EmptyMap
    /\ deletedBranches' = loadDeletionHistory(EmptyMap, "ok", now, {})
    /\ branches' = InitBranches
    /\ last' = [LastOf("loadDeletionHistory", "-", "-", "-", "ok", "ok")
                   EXCEPT !.days = retentionDays({}), !.lagged = FALSE]
    /\ preview' = IdlePreview
    /\ listed' = ListedReplaced(Repos)
    /\ UNCHANGED <<storeUp, now, file, confirmed, initial, auth, sanitized, inflight>>

ImportExportedFile ==
    /\ last.op = "loadDeletionHistory"
    /\ ImportDeletionHistoryOf({Parse(file)}, {"merge", "replace", "dismissed"})

NextPorting ==
    \/ OnceExportDeletionHistory
    \/ ConstructElsewhere
    \/ ImportExportedFile

SpecPorting == InitPorting /\ [][NextPorting]_vars

(***************************************************************************)
(* SpecReflog: restoreFromReflog on a reflog of at most MaxLines lines,    *)
(* started in any ledger of at most MaxLedgerRecs records                  *)
(***************************************************************************)
\* what follows the hash and the braces in a line: nothing the scan looks
\* for, or a deletion phrase and a branch name
LineParts ==
    {<<>>, <<Part("checkout: moving to", "b1", "")>>}
    \cup {<<Part("branch: deleted", b, "")>> : b \in Names}
    \cup {<<Part("branch: deleted", "b1", "#1")>>}
    \cup {<<Part(ph, "b1", "")>> : ph \in {"deleted remote-tracking branch", "deleted remote branch",
                                         "branch: force-deleted", "update-ref delete refs/heads/"}}

ReflogLines ==
    {Line(h, t, ps) : h \in {"", "c1", "c1b"}, t \in {UnknownDate, 3}, ps \in LineParts}

Reflogs == SeqsUpTo(ReflogLines, MaxLines)

OnceRestoreFromReflogOf == Fresh /\ RestoreFromReflogOf(Reflogs)

NextReflog == OnceRestoreFromReflogOf

SpecReflog == InitHandlers /\ [][NextReflog]_vars

(***************************************************************************)
(* SpecScan: restoreFromReflog, from construction, on a reflog of at most  *)
(* MaxLines lines that hold up to two deletion phrases each                *)
(***************************************************************************)
\* messages with one phrase, and messages in which two phrases of different
\* patterns name different branches
ScanParts ==
    {<<Part("checkout: moving to", "b1", "")>>}
    \cup {<<Part("branch: deleted", b, "")>> : b \in Names}
    \cup {<<Part("branch: force-deleted", "b1", "")>>,
          <<Part("branch: force-deleted", "b1", ""), Part("deleted remote branch", "b2", "")>>,
          <<Part("deleted remote-tracking branch", "b2", ""), Part("branch: force-deleted", "b1", "")>>,
          <<Part("update-ref delete refs/heads/", "b2", ""), Part("branch: deleted", "b1", "")>>}

ScanLines == {Line(h, 3, ps) : h \in {"c1", "c1b"}, ps \in ScanParts}

ScanReflogs == SeqsUpTo(ScanLines, MaxLines)

OnceRestoreFromScan == Fresh /\ RestoreFromReflogOf(ScanReflogs)

NextScan == OnceRestoreFromScan

SpecScan == Init /\ [][NextScan]_vars

(***************************************************************************)
(* SpecMerge: two documents imported with Merge, one after the other, into *)
(* a ledger of at most MaxLedgerRecs records                               *)
(***************************************************************************)
\* documents that pass the format check and hold arrays only
MergeDocuments ==
    [version : {"1.0"}, kind : {"object"},
     entries : {h \in Histories :
                  /\ h["r1"].kind # "null"
                  /\ h["r2"] \in {Absent, Arr(<<Rec("b1", "c1", 0, "extension")>>)}}]

\* the ledgers the two imports start from: records in r1 only
MergeLedgers == {m \in Ledgers : getDeletedBranches(m, "r2") = <<>>}

InitMerge ==
    /\ deletedBranches \in MergeLedgers
    /\ globalState = deletedBranches
    /\ storeUp = TRUE
    /\ branches = BranchesOf(deletedBranches)
    /\ now = 0
    /\ file = NoDoc
    /\ preview = IdlePreview
    /\ confirmed = {}
    /\ last = LastOf("none", "-", "-", "-", "-", "-")
    /\ \E a \in MergeDocuments, b \in MergeDocuments : initial = Given(deletedBranches, <<a, b>>)
    /\ listed = NoList
    /\ auth = NoAuth
    /\ sanitized = NoName
    /\ inflight = NoCalls

\* the ledger after a Merge import of doc into the ledger m
MergeOf(m, doc) == ImportEntries([m |-> m, count |-> 0, threw |-> FALSE], doc.entries, "merge", 1).m

\* the first document has been imported and nothing else has happened
AfterFirstImport ==
    /\ last.op = "importDeletionHistory" /\ last.result = "ok" /\ last.strategy = "merge"
    /\ last.doc = initial.docs[1]
    /\ deletedBranches = MergeOf(initial.history, initial.docs[1])

ImportFirst == Fresh /\ ImportDeletionHistoryOf({initial.docs[1]}, {"merge"})

ImportSecond == AfterFirstImport /\ ImportDeletionHistoryOf({initial.docs[2]}, {"merge"})

NextMerge ==
    \/ ImportFirst
    \/ ImportSecond

SpecMerge == InitMerge /\ [][NextMerge]_vars

(***************************************************************************)
(* Claims                                                                  *)
(***************************************************************************)
SameEvent(x, y) == x.name = y.name /\ x.commit = y.commit

NoDuplicates(recs) ==
    \A i, j \in 1..Len(recs) : i # j => ~SameEvent(recs[i], recs[j])

\* C1: whatever deletions and restores were made, no repository's sequence
\* holds two records with the same (name, commit) pair: recording a deletion
\* whose pair is already tracked is a no-op.
C1_UniqueDeletionEvents ==
    \A r \in Repos : NoDuplicates(getDeletedBranches(deletedBranches, r))

\* a restore of the tracked record (name, commit) of repository r has just
\* been carried out
RestoredRecord(r) ==
    /\ last'.repo = r
    /\ \/ last'.op = "restoreBranch" /\ last'.result = "ok"
       \/ last'.op = "showDeletedBranches" /\ last'.result = "restored"
    /\ \E i \in 1..Len(getDeletedBranches(deletedBranches, r)) :
         /\ getDeletedBranches(deletedBranches, r)[i].name = last'.name
         /\ getDeletedBranches(deletedBranches, r)[i].commit = last'.commit

\* C2: restoring the record (name, commit) removes only the records with
\* exactly that pair; every other record of the repository, also one with
\* the same name and another commit, stays in the sequence, in its place.
C2_RestoreRemovesExactRecord ==
    [][\A r \in WorkRepos :
         RestoredRecord(r) =>
           getDeletedBranches(deletedBranches', r) =
             SelectSeq(getDeletedBranches(deletedBranches, r),
                       LAMBDA x : ~(x.name = last'.name /\ x.commit = last'.commit))]_vars

\* C3: a restore flow (from tracked history or from the reflog) creates the
\* branch and changes the ledger only after showDiffPreview has been called
\* for that (repo, branch, commit) and has returned true.
C3_RestoreOnlyAfterPreview ==
    (last.op \in {"showDeletedBranches", "restoreFromReflog"} /\ last.result = "restored")
        => <<last.repo, last.name, last.commit>> \in confirmed

\* C4: showDiffPreview returns true only when the user chose 'restore now' in
\* the file list or the affirmative answer of a binary confirmation, and
\* false when the user chose cancel or dismissed the prompt.
C4_PreviewTrueOnlyWhenConfirmed ==
    (last.op = "showDiffPreview" /\ last.result \in {"true", "false"}) =>
        /\ (last.result = "true") = (last.answer \in {"restore", "Restore Anyway", "Restore"})
        /\ (last.result = "true") = (preview.state = "Confirmed")
        /\ (last.result = "false") = (last.answer \in {"cancel", "Cancel", "dismissed"})

\* C4, witness: a preview that went through a file inspection and was then
\* confirmed from the file list
C4_Witness ==
    /\ last.op = "showDiffPreview" /\ last.result = "true" /\ last.answer = "restore"
    /\ preview.state = "Confirmed" /\ preview.inspected

\* C5: a prompt that the user declines or dismisses (a step of
\* showDiffPreview, the Yes/No restore confirmation or the selection before
\* it, the import file dialog, the import-strategy choice) leaves the ledger,
\* the durable store and the branches as they were.
C5_DeclineChangesNothing ==
    [][(last'.answer \in {"No", "dismissed", "no file"} \/ last'.op = "showDiffPreview")
          => UNCHANGED <<deletedBranches, globalState, branches>>]_vars

\* C5, witness: the strategy prompt of an import was dismissed although the
\* ledger holds a record and the document would have brought in others
C5_Witness ==
    /\ last.op = "importDeletionHistory" /\ last.result = "declined" /\ last.answer = "dismissed"
    /\ TotalRecs(last.doc.entries, Repos) > 0
    /\ last.doc.entries # deletedBranches
    /\ TotalRecs(deletedBranches, Repos) > 0

\* C6: an import is atomic: when it fails, the ledger and the durable store
\* are exactly as before the import.
C6_ImportAtomic ==
    [][(last'.op = "importDeletionHistory" /\ last'.result = "error")
          => UNCHANGED <<deletedBranches, globalState>>]_vars

\* version or deletionHistory is missing or malformed
Malformed(doc) == doc.version # "1.0" \/ doc.kind # "object"

\* C7: a document whose version or deletionHistory is missing or malformed
\* is rejected with an error, and neither the ledger nor the durable store
\* changes.
C7_MalformedDocumentRejected ==
    [][(last'.op = "importDeletionHistory" /\ last'.answer # "no file" /\ Malformed(last'.doc))
          => (last'.result = "error" /\ UNCHANGED <<deletedBranches, globalState>>)]_vars

MergedImport ==
    last'.op = "importDeletionHistory" /\ last'.result = "ok" /\ last'.strategy = "merge"

\* the records the import put behind the existing ones of repository r
AddedTo(r) ==
    SubSeq(getDeletedBranches(deletedBranches', r),
           Len(getDeletedBranches(deletedBranches, r)) + 1,
           Len(getDeletedBranches(deletedBranches', r)))

\* the number of records the import added to the first i repositories
RECURSIVE AddedUpTo(_)
AddedUpTo(i) == IF i = 0 THEN 0 ELSE Len(AddedTo(RepoOrder[i])) + AddedUpTo(i - 1)

\* C8: a Merge import keeps every existing record in place, adds for each
\* repository of the document exactly the records whose (name, commit) pair
\* was not in that repository's sequence, leaves the repositories that are
\* not in the document untouched and reports the number of records added.
C8_MergeAddsOnlyNewEvents ==
    [][MergedImport =>
         /\ \A r \in Repos :
              LET before == getDeletedBranches(deletedBranches, r)
                  after == getDeletedBranches(deletedBranches', r)
                  incoming == last'.doc.entries[r]
              IN IF incoming.kind = "absent"
                 THEN deletedBranches'[r] = deletedBranches[r]
                 ELSE /\ Len(after) >= Len(before)
                      /\ SubSeq(after, 1, Len(before)) = before
                      /\ AddedTo(r) = SelectSeq(incoming.recs,
                                         LAMBDA d : \A i \in 1..Len(before) : ~SameEvent(before[i], d))
         /\ last'.count = AddedUpTo(Len(RepoOrder))]_vars

\* C8, witness: a Merge import into a ledger that already tracked one of the
\* two events the document brings for a repository: one record was skipped
\* and one added behind the existing record
C8_Witness ==
    /\ last.op = "importDeletionHistory" /\ last.result = "ok" /\ last.strategy = "merge"
    /\ last.count = 1
    /\ Len(last.doc.entries["r1"].recs) = 2
    /\ Len(getDeletedBranches(deletedBranches, "r1")) = 2
    /\ last.doc.entries["r2"].kind = "absent"

\* C9: after a Replace import the ledger is the document's deletionHistory,
\* repository by repository, and nothing of the previous ledger remains.
C9_ReplaceAdoptsDocument ==
    (last.op = "importDeletionHistory" /\ last.result = "ok" /\ last.strategy = "replace")
        => deletedBranches = last.doc.entries

\* C9, witness: a Replace import of a document that names one repository,
\* after which the ledger has lost the other repository
C9_Witness ==
    /\ last.op = "importDeletionHistory" /\ last.result = "ok" /\ last.strategy = "replace"
    /\ last.doc.entries["r1"].kind = "seq" /\ Len(last.doc.entries["r1"].recs) = 2
    /\ deletedBranches["r2"] = Absent
    /\ globalState = deletedBranches

\* C10: a Merge import never introduces duplicates: if no repository held two
\* records with the same (name, commit) pair before, none does afterwards.
C10_MergeIntroducesNoDuplicates ==
    [][(MergedImport /\ \A r \in Repos : NoDuplicates(getDeletedBranches(deletedBranches, r)))
          => \A r \in Repos : NoDuplicates(getDeletedBranches(deletedBranches', r))]_vars

RecordSet(m, r) == {getDeletedBranches(m, r)[i] : i \in 1..Len(getDeletedBranches(m, r))}

PairSet(m, r) == {<<x.name, x.commit>> : x \in RecordSet(m, r)}

\* the step is the Merge import of the second document, right after the
\* Merge import of the first one
SecondMergeStep ==
    /\ AfterFirstImport
    /\ MergedImport
    /\ last'.doc = initial.docs[2]

\* the ledger the two imports give in the other order
OtherOrder == MergeOf(MergeOf(initial.history, initial.docs[2]), initial.docs[1])

\* the two documents bring different records for one deletion event of r
Conflict(r) ==
    \E x \in RecordSet(initial.docs[1].entries, r), y \in RecordSet(initial.docs[2].entries, r) :
        SameEvent(x, y) /\ x # y

Pruned == last.op = "loadDeletionHistory" /\ last.answer = "ok"

\* deletedAt is a date before the cutoff
Older(d, cutoff) == d.deletedAt # UnknownDate /\ d.deletedAt < cutoff

\* C13: pruning with horizon h removes from every repository's sequence
\* exactly the records whose deletedAt is older than now - h days and keeps
\* all other records, in their order (stated on the records whose deletedAt
\* is a date).
C13_PruneRemovesExactlyOld ==
    Pruned =>
        \A r \in Repos :
            SelectSeq(getDeletedBranches(deletedBranches, r),
                      LAMBDA d : d.deletedAt # UnknownDate) =
                SelectSeq(getDeletedBranches(initial.history, r),
                          LAMBDA d : d.deletedAt # UnknownDate /\ ~Older(d, now - last.days))

\* C14: pruning is idempotent: right after the pruning of a load, a second
\* pruning at the same time with the same horizon removes nothing.
C14_PruneIdempotent ==
    Pruned => cleanupOldDeletions(deletedBranches, now, {last.days}) = deletedBranches

\* C14, witness: the pruning of the load removed a record and kept another
C14_Witness ==
    /\ Pruned
    /\ \E r \in Repos :
         /\ Len(getDeletedBranches(initial.history, r)) = 2
         /\ Len(getDeletedBranches(deletedBranches, r)) = 1

\* C15: after loadDeletionHistory the ledger holds, for every repository,
\* exactly the persisted records whose deletedAt is not older than now minus
\* the configured retention horizon (90 days when it is not set).
C15_LoadKeepsExactlyRecent ==
    Pruned =>
        \A r \in Repos :
            getDeletedBranches(deletedBranches, r) =
                SelectSeq(getDeletedBranches(initial.history, r),
                          LAMBDA d : d.deletedAt # UnknownDate /\ d.deletedAt >= now - last.days)

\* C16: when an operation that changes the ledger (deleteBranch,
\* restoreBranch, importDeletionHistory, the pruning of loadDeletionHistory)
\* has completed with a working store, the store holds exactly the ledger.
C16_StoreFollowsLedger ==
    [][(/\ last'.op \in {"deleteBranch", "restoreBranch", "importDeletionHistory",
                          "loadDeletionHistory"}
        /\ last'.result = "ok"
        /\ storeUp
        /\ deletedBranches' # deletedBranches)
          => globalState' = deletedBranches']_vars

\* C18: when the read of the persisted document fails in
\* loadDeletionHistory, construction completes and the ledger is empty.
C18_FailedLoadLeavesEmptyLedger ==
    (last.op = "loadDeletionHistory" /\ last.answer = "fails")
        => (last.result = "ok" /\ deletedBranches = EmptyMap)

\* C18, witness: the store held records of both repositories and its read
\* failed
C18_Witness ==
    /\ last.op = "loadDeletionHistory" /\ last.answer = "fails"
    /\ \A r \in Repos : Len(getDeletedBranches(globalState, r)) > 0
    /\ deletedBranches = EmptyMap

\* the step is a deleteBranch, a restoreBranch or an importDeletionHistory
\* that completed
CompletedMutation ==
    /\ storeUp' = storeUp
    /\ last'.op \in {"deleteBranch", "restoreBranch", "importDeletionHistory"}
    /\ last'.result = "ok"

\* the ledger the completed operation of the step leaves, as its code
\* computes it from the ledger before
LedgerAfter ==
    LET r == last'.repo
    IN CASE last'.op = "deleteBranch" ->
              [deletedBranches EXCEPT ![r] =
                  Arr(Append(getDeletedBranches(deletedBranches, r),
                             Rec(last'.name, last'.commit, now, "extension")))]
         [] last'.op = "restoreBranch" ->
              IF Has(deletedBranches, r)
              THEN [deletedBranches EXCEPT ![r] =
                       Arr(RestoreFilter(deletedBranches[r].recs, last'.name, last'.commit))]
              ELSE deletedBranches
         [] OTHER ->
              IF last'.strategy = "merge" THEN MergeOf(deletedBranches, last'.doc)
              ELSE last'.doc.entries

\* the completed operation of the step calls saveDeletionHistory
Saves == last'.op = "restoreBranch" => Has(deletedBranches, last'.repo)

\* C17: when the store's write fails during deleteBranch, restoreBranch or
\* importDeletionHistory, the operation completes, the ledger keeps the
\* mutation and the store keeps what it held; the next save that succeeds
\* writes the whole ledger, the mutation included.
C17_FailedWriteKeepsMutation ==
    [][CompletedMutation =>
         /\ deletedBranches' = LedgerAfter
         /\ ~storeUp => globalState' = globalState
         /\ (storeUp /\ Saves) => globalState' = deletedBranches']_vars

\* C17, witness: a deletion was saved while the store was behind the ledger
\* by an earlier deletion, and the store now holds both
C17_Witness ==
    /\ last.op = "deleteBranch" /\ last.result = "ok" /\ last.lagged /\ storeUp
    /\ Len(getDeletedBranches(deletedBranches, "r1")) = 2
    /\ globalState = deletedBranches

RestoresLastDeletion(r) ==
    /\ last.op = "deleteBranch" /\ last.result = "ok" /\ last.repo = r
    /\ last'.repo = r /\ last'.name = last.name /\ last'.commit = last.commit
    /\ \/ last'.op = "restoreBranch" /\ last'.result = "ok"
       \/ last'.op = "showDeletedBranches" /\ last'.result = "restored"

\* C19: delete then restore round-trips: restoring the record that a
\* deleteBranch has just created recreates the branch at the commit it
\* pointed to and leaves the repository's sequence as it was before the
\* deletion, which appended the record to it.
C19_DeleteRestoreRoundTrip ==
    [][\A r \in WorkRepos :
         RestoresLastDeletion(r) =>
            /\ branches'[r][last.name] = last.commit
            /\ getDeletedBranches(deletedBranches', r) =
                 SubSeq(getDeletedBranches(deletedBranches, r), 1,
                        Len(getDeletedBranches(deletedBranches, r)) - 1)]_vars

\* the line starts with a commit hash and holds one deletion phrase
Recognised(line) ==
    /\ line.hash # ""
    /\ Len(line.parts) = 1
    /\ \E k \in 1..Len(PatternOrder) : MatchesPattern(PatternOrder[k], line.parts[1].phrase)

\* C20: every reflog line that starts with a commit hash and contains a
\* recognised deletion phrase yields a candidate with that branch name, that
\* hash and source reflog, whose timestamp is what the braces hold, or
\* unknown when the line has no braces (stated on the lines that no earlier
\* line with the same name and hash prefix precedes).
C20_RecognisedLineYieldsCandidate ==
    (last.op = "restoreFromReflog" /\ last.repo # NoRepo) =>
        \A i \in 1..Len(last.reflog) :
            LET line == last.reflog[i]
            IN (/\ Recognised(line)
                /\ \A j \in 1..(i - 1) :
                      Recognised(last.reflog[j]) =>
                          KeyOf(last.reflog[j].parts[1].head, last.reflog[j].hash)
                              # KeyOf(line.parts[1].head, line.hash))
               => \E n \in 1..Len(last.candidates) :
                     /\ last.candidates[n].name = line.parts[1].head
                     /\ line.parts[1].tail = ""
                     /\ last.candidates[n].commit = line.hash
                     /\ last.candidates[n].deletedBy = "reflog"
                     /\ last.candidates[n].deletedAt = line.stamp

\* the candidate a line yields when the patterns are tried in `order`: <<>>
\* when no pattern matches, else the record made of the name that follows
\* the phrase of the first pattern that matches
LineCandidate(order, line) ==
    LET ks == {k \in 1..Len(order) : MatchAt(line, order[k]) # 0}
    IN IF ks = {} THEN <<>>
       ELSE LET k == CHOOSE k \in ks : \A j \in ks : k <= j
            IN <<Rec(line.parts[MatchAt(line, order[k])].head, line.hash, line.stamp, "reflog")>>

\* branch name and commit-hash prefix of a candidate
EventKey(x) == <<x.name, Prefix7(x.commit)>>

\* the lines that yield a candidate whose key no earlier line yields
FirstOccurrences(order, lines) ==
    {i \in 1..Len(lines) :
        /\ LineCandidate(order, lines[i]) # <<>>
        /\ \A j \in 1..(i - 1) :
              \/ LineCandidate(order, lines[j]) = <<>>
              \/ EventKey(LineCandidate(order, lines[j])[1]) # EventKey(LineCandidate(order, lines[i])[1])}

\* cands lists, in log order, the candidates of the first occurrences
ListsFirstOccurrences(order, lines, cands) ==
    LET F == FirstOccurrences(order, lines)
    IN /\ Len(cands) = Cardinality(F)
       /\ \E f \in [1..Len(cands) -> F] :
            /\ \A m, n \in 1..Len(cands) : m < n => f[m] < f[n]
            /\ \A n \in 1..Len(cands) : cands[n] = LineCandidate(order, lines[f[n]])[1]

Scanned == last.op = "restoreFromReflog" /\ last.repo # NoRepo

\* C21: the scan output never contains two candidates with the same branch
\* name and the same commit-hash prefix; of the lines that yield the same
\* key only the first in log order is kept, and the candidates are in log
\* order.
C21_ScanKeepsFirstOfEachKey ==
    Scanned =>
        /\ \A m, n \in 1..Len(last.candidates) :
              m # n => EventKey(last.candidates[m]) # EventKey(last.candidates[n])
        /\ ListsFirstOccurrences(PatternOrder, last.reflog, last.candidates)

\* two lines with the same branch name and hashes that differ after the
\* seventh digit: the scan has kept the first one only
C21_Witness ==
    /\ Scanned
    /\ Len(last.reflog) = 2
    /\ last.reflog[1].hash = "c1b" /\ last.reflog[2].hash = "c1"
    /\ last.reflog[1].parts = <<Part("branch: deleted", "b1", "")>>
    /\ last.reflog[2].parts = <<Part("branch: force-deleted", "b1", "")>>
    /\ last.candidates = <<Rec("b1", "c1b", 3, "reflog")>>

\* the order in which the matchers are said to be tried
StatedOrder == <<"standard", "force", "remote", "update-ref">>

\* the order of the array of patterns
ArrayOrder == <<"standard", "remote", "force", "update-ref">>

\* C22 as stated: each line produces at most one candidate, the one of the
\* first matcher that matches it when the matchers are tried in the order
\* standard delete, forced delete, remote-tracking delete, ref-update delete.
C22_FirstMatcherInStatedOrder ==
    Scanned =>
        /\ Len(last.candidates) <= Len(last.reflog)
        /\ ListsFirstOccurrences(StatedOrder, last.reflog, last.candidates)

\* C22 amended: each line produces at most one candidate, the one of the
\* first matcher that matches it when the matchers are tried in the order
\* standard delete, remote-tracking delete, forced delete, ref-update delete.
C22_FirstMatcherInArrayOrder ==
    Scanned =>
        /\ Len(last.candidates) <= Len(last.reflog)
        /\ ListsFirstOccurrences(ArrayOrder, last.reflog, last.candidates)

\* a line that holds a forced deletion of b1 and, after it, a remote
\* deletion of b2 has yielded the one candidate b2
C22_Witness ==
    /\ Scanned
    /\ Len(last.reflog) = 1
    /\ last.reflog[1].parts = <<Part("branch: force-deleted", "b1", ""),
                                Part("deleted remote branch", "b2", "")>>
    /\ last.candidates = <<Rec("b2", last.reflog[1].hash, 3, "reflog")>>

\* the records of history m that history old does not hold
NewRecords(m, old) == UNION {RecordSet(m, r) \ RecordSet(old, r) : r \in Repos}

\* C23: reflog-discovered candidates are transient: a restoreFromReflog,
\* whether it restores a candidate or not, adds no record to the in-memory
\* ledger and writes to the store no record that the ledger did not hold;
\* only deleteBranch and importDeletionHistory add records to the ledger.
C23_ReflogCandidatesTransient ==
    [][/\ last'.op = "restoreFromReflog" =>
            /\ NewRecords(deletedBranches', deletedBranches) = {}
            /\ \A r \in Repos : Len(getDeletedBranches(deletedBranches', r))
                                   <= Len(getDeletedBranches(deletedBranches, r))
            /\ NewRecords(globalState', globalState) \subseteq
                   UNION {RecordSet(deletedBranches, r) : r \in Repos}
       /\ NewRecords(deletedBranches', deletedBranches) # {} =>
            last'.op \in {"deleteBranch", "importDeletionHistory"}]_vars

\* a candidate of the reflog has been restored while the ledger tracks a
\* deletion: ledger and store hold that deletion and not the candidate
C23_Witness ==
    /\ last.op = "restoreFromReflog" /\ last.result = "restored"
    /\ Len(last.candidates) = 1
    /\ getDeletedBranches(deletedBranches, "r1") # <<>>
    /\ globalState = deletedBranches
    /\ \A x \in RecordSet(deletedBranches, "r1") : x.deletedBy = "extension"

\* the step closes a prompt of the preview with a final result
PreviewEnds ==
    /\ preview'.state \in {"Confirmed", "Cancelled"}
    /\ last'.op = "showDiffPreview"
    /\ last'.result = IF preview'.state = "Confirmed" THEN "true" ELSE "false"

\* C24: when the diff between the current branch and the commit is empty,
\* showDiffPreview shows the binary "no differences" confirmation and never
\* the file-selection menu, and its result is the user's answer to that
\* confirmation: true exactly for 'Restore Anyway'.
C24_EmptyDiffAsksToRestoreAnyway ==
    [][/\ (preview'.diff = "empty" /\ preview' # preview) => preview'.state = "ConfirmNoDiff"
       /\ (preview.diff = "empty" /\ preview' # preview) =>
            /\ PreviewEnds
            /\ last'.answer \in {"Restore Anyway", "Cancel", "dismissed"}
            /\ (last'.result = "true") = (last'.answer = "Restore Anyway")]_vars

\* a preview of an empty diff has been answered with 'Restore Anyway'
C24_Witness ==
    /\ preview.state = "Confirmed" /\ ~preview.inspected
    /\ last.op = "showDiffPreview" /\ last.answer = "Restore Anyway" /\ last.result = "true"

\* C25: when computing the diff fails, showDiffPreview neither aborts
\* silently nor raises: it shows the degraded binary confirmation and
\* returns true exactly when the user accepts it with 'Restore'.
C25_FailedDiffAsksToRestore ==
    [][/\ (preview'.diff = "fails" /\ preview' # preview) => preview'.state = "ConfirmDegraded"
       /\ (preview.diff = "fails" /\ preview' # preview) =>
            /\ PreviewEnds
            /\ last'.answer \in {"Restore", "Cancel", "dismissed"}
            /\ (last'.result = "true") = (last'.answer = "Restore")]_vars

\* a preview whose diff failed has been answered with 'Restore'
C25_Witness ==
    /\ preview.state = "Confirmed" /\ ~preview.inspected
    /\ last.op = "showDiffPreview" /\ last.answer = "Restore" /\ last.result = "true"

\* C30: from the file-list menu the preview goes to the inspection of a
\* file or to a final result, and after the inspection of a file the next
\* thing shown is always the file-list menu again, never a final result and
\* never another prompt.
C30_InspectReturnsToFileList ==
    [][/\ (preview.state = "PreviewingFileList" /\ preview' # preview) =>
            preview'.state \in {"InspectingFile", "Confirmed", "Cancelled"}
       /\ (preview.state = "InspectingFile" /\ preview' # preview) =>
            preview'.state = "PreviewingFileList"]_vars

\* C26: getDeletedBranches returns a snapshot copy: changing the returned
\* sequence does not change the ledger, a later deletion or restore does
\* not change a sequence returned earlier, and for a repository the ledger
\* does not know the result is the empty sequence.
C26_ListIsSnapshot ==
    [][/\ last'.op = "shift" => deletedBranches' = deletedBranches
       /\ last'.op \in {"deleteBranch", "restoreBranch"} => listed'.recs = listed.recs
       /\ (last'.op = "getDeletedBranches" /\ ~Has(deletedBranches, last'.repo)) =>
            listed'.recs = <<>>]_vars

\* C27: exportDeletionHistory produces a document with version "1.0", an
\* exportedAt timestamp and a deletionHistory equal to the whole in-memory
\* ledger, and never changes the ledger or the store; when the save dialog
\* is cancelled (or the write fails) nothing is written.
C27_ExportWritesWholeLedger ==
    [][(last'.op = "exportDeletionHistory" /\ last.op # "exportDeletionHistory") =>
          /\ deletedBranches' = deletedBranches
          /\ globalState' = globalState
          /\ last'.result = "ok" =>
                /\ file'.version = "1.0"
                /\ file'.exportedAt = now
                /\ Parse(file').entries = deletedBranches
                /\ \A i, j \in 1..Len(file'.members) :
                      i # j => file'.members[i][1] # file'.members[j][1]
          /\ last'.result # "ok" => file' = file]_vars

\* a ledger with records has been exported to a file
C27_Witness ==
    /\ last.op = "exportDeletionHistory" /\ last.result = "ok"
    /\ file # NoDoc
    /\ Len(getDeletedBranches(deletedBranches, "r1")) = 2
    /\ Has(deletedBranches, "r2")
    /\ deletedBranches = initial.history

\* C28: after switchProfile or addProfile has changed the active profile,
\* no GET request is answered from a cache entry that was stored under the
\* previous profile: whenever a step answers a GET from the cache, the
\* entry was stored while the profile now active was active.
C28_NoAnswerFromPreviousProfile ==
    auth.answer.cached => auth.answer.by = auth.activeProfile

\* C29: for every input string, sanitizeBranchName returns a string of at
\* most 50 characters that contains only lower-case letters, digits and
\* dashes, has no leading or trailing dash and no two adjacent dashes.
C29_SanitizedNameWellFormed ==
    sanitized.output # NotRun =>
        LET out == sanitized.output
        IN /\ Len(out) <= 50
           /\ \A i \in 1..Len(out) : out[i] \in {"a", "1", "-"}
           /\ Len(out) > 0 => (out[1] # "-" /\ out[Len(out)] # "-")
           /\ \A i \in 1..(Len(out) - 1) : ~(out[i] = "-" /\ out[i + 1] = "-")

\* C31: showDiffPreview and showFileDiff never change the in-memory ledger,
\* the durable store or the branches of the repository, whatever the diff
\* gives and whatever the user answers, for any number of file inspections:
\* every step of the preview, from its entry to its result, leaves the
\* three as they were.
C31_PreviewLeavesStateAlone ==
    [][(preview'.state # "Idle" /\ preview' # preview)
          => UNCHANGED <<deletedBranches, globalState, branches>>]_vars

\* a preview of a tracked, deleted branch has ended after the inspection
\* of a file: the record is still tracked and the branch is still gone
C31_Witness ==
    /\ preview.state \in {"Confirmed", "Cancelled"} /\ preview.inspected
    /\ preview.view = "shown"
    /\ branches[preview.repo][preview.name] = NoCommit
    /\ \E i \in 1..Len(getDeletedBranches(deletedBranches, preview.repo)) :
         getDeletedBranches(deletedBranches, preview.repo)[i].name = preview.name
    /\ globalState = deletedBranches

\* C32: when a subprocess fails during deleteBranch (resolving the commit or
\* deleting the branch) or during restoreBranch (creating the branch), the
\* in-memory ledger and the durable store are as before, the subprocess is
\* run once only, and the operation ends with the error that names it.
C32_SubprocessFailureChangesNothing ==
    [][(last'.op \in {"deleteBranch", "restoreBranch"} /\ last'.failed # "-")
          => /\ UNCHANGED <<deletedBranches, globalState, branches>>
             /\ last'.result = "error"]_vars

\* `git branch` has failed in a restore of a tracked, deleted branch while
\* the store lagged behind the ledger: the record is still tracked, the
\* branch is still gone and the store still lags
C32_Witness ==
    /\ last.op = "restoreBranch" /\ last.failed = "git branch" /\ last.result = "error"
    /\ branches[last.repo][last.name] = NoCommit
    /\ \E i \in 1..Len(getDeletedBranches(deletedBranches, last.repo)) :
         getDeletedBranches(deletedBranches, last.repo)[i].name = last.name
    /\ globalState # deletedBranches

\* the step answers Yes in a showDeletedBranches whose selected record the
\* ledger does not hold any more
StaleRestore ==
    /\ inflight.selection # NoSelection /\ inflight'.selection = NoSelection
    /\ last'.op = "showDeletedBranches" /\ last'.answer = "Yes"
    /\ ~Tracked(deletedBranches, inflight.selection)

\* C33: when, by the time a restore from history is carried out, the chosen
\* record is no longer in the ledger because another path has removed it,
\* the restore is reported as not found and neither the branches of the
\* repository nor the ledger are changed.
C33_StaleSelectionNotFound ==
    [][StaleRestore =>
          /\ last'.result = "not found"
          /\ UNCHANGED <<branches, deletedBranches>>]_vars

\* C34: in every reachable state every record of the ledger has a deletedAt
\* that is a valid point in time and was not later than the current time
\* when the record was inserted, whether deleteBranch or
\* importDeletionHistory inserted it.
C34_LedgerDatesValid ==
    \A r \in Repos : \A x \in RecordSet(deletedBranches, r) :
        x.deletedAt # UnknownDate /\ x.deletedAt <= now

\* C35: the deleted-branches view lists the records of a repository sorted
\* by deletedAt, most recent first, with one item per record, for every
\* content of the ledger, also when several records share a branch name.
C35_ViewSortedByDate ==
    last.op = "getDeletedBranchesForRepo" =>
        LET items == last.candidates
            deletions == getDeletedBranches(deletedBranches, last.repo)
        IN /\ Len(items) = Len(deletions)
           /\ \A x \in RecordSet(deletedBranches, last.repo) :
                 Cardinality({i \in 1..Len(items) : items[i] = x})
                   = Cardinality({i \in 1..Len(deletions) : deletions[i] = x})
           /\ \A i, j \in 1..Len(items) : i < j => items[i].deletedAt >= items[j].deletedAt

\* C36: the key registered for cross-machine sync is the key under which
\* the ledger is read at load and written at save, so that every saved
\* ledger is the data that is marked for sync.
C36_SavedLedgerIsSynced ==
    Constructed =>
        /\ StoreKey \in KeysForSync
        /\ \E k \in KeysForSync : SyncedPart(globalState)[k] = globalState

\* the records of the ledger that the step removes
RemovedRecords ==
    UNION {RecordSet(deletedBranches, r) \ RecordSet(deletedBranches', r) : r \in Repos}

\* C37: for any interleaving, at their await points, of deleteBranch,
\* restoreBranch and importDeletionHistory, once all of them have completed
\* with successful writes the durable store holds exactly the in-memory
\* ledger, and a record added by a deleteBranch leaves the ledger only by a
\* later restore or Replace import.
C37_InterleavedCallsKeepStoreAndRecords ==
    /\ [](inflight.writes = <<>> => globalState = deletedBranches)
    /\ [][RemovedRecords # {} =>
             \/ last'.op = "restoreBranch"
             \/ last'.op = "importDeletionHistory" /\ last'.strategy = "replace"]_vars

\* two deletions, the second one made while the write of the first was
\* under way, have both completed: ledger and store hold the two records
C37_Witness ==
    /\ inflight.overlap /\ inflight.writes = <<>>
    /\ last.op = "deleteBranch" /\ last.result = "ok"
    /\ Len(getDeletedBranches(deletedBranches, "r1")) = 2
    /\ globalState = deletedBranches

\* C38: Merge import is idempotent: importing the same document a second
\* time with Merge, with nothing in between, adds no record, reports a
\* count of 0 and leaves the ledger as it was.
C38_MergeIdempotent ==
    [][(SecondMergeStep /\ initial.docs[1] = initial.docs[2]) =>
          /\ last'.count = 0
          /\ deletedBranches' = deletedBranches
          /\ \A r \in Repos : Len(AddedTo(r)) = 0]_vars

\* a document of two records has been merged twice into a ledger that held
\* another record: the first import added records, the second one none
C38_Witness ==
    /\ last.op = "importDeletionHistory" /\ last.result = "ok" /\ last.strategy = "merge"
    /\ initial.docs[1] = initial.docs[2] /\ last.doc = initial.docs[2]
    /\ TotalRecs(last.doc.entries, Repos) = 2
    /\ TotalRecs(initial.history, Repos) = 1
    /\ deletedBranches = MergeOf(initial.history, initial.docs[1])
    /\ deletedBranches # initial.history
    /\ last.count = 0

\* C39: cleanupOldDeletions removes every record whose deletedAt cannot be
\* parsed as a date, whatever the retention horizon, so that no such record
\* is in the ledger after a load.
C39_UnparsableDatesPruned ==
    Pruned =>
        \A r \in Repos : \A x \in RecordSet(deletedBranches, r) : x.deletedAt # UnknownDate

\* C40: when the user answers every prompt and at some time picks something
\* other than a file, showDiffPreview ends in Confirmed or Cancelled; every
\* inspection of a file, also one whose diff viewer does not open, is
\* followed by a new prompt, and the flow ends only by an answer to a
\* prompt, never by the inspection itself.
C40_PreviewTerminates ==
    /\ (~Quiescent) ~> (preview.state \in {"Confirmed", "Cancelled"})
    /\ [][(preview.state = "InspectingFile" /\ preview' # preview) =>
             preview'.state \in {"PreviewingFileList", "ConfirmNoDiff", "ConfirmDegraded"}]_vars
    /\ [][(~Quiescent /\ preview'.state \in {"Confirmed", "Cancelled"}) =>
             /\ preview.state # "InspectingFile"
             /\ last'.result \in {"true", "false"}
             /\ last'.answer \in {"restore", "cancel", "dismissed", "Restore Anyway",
                                   "Restore", "Cancel"}]_vars

\* a preview in which the diff viewer did not open for the inspected file
\* has shown a new prompt and has ended by the answer to it
C40_Witness ==
    /\ preview.state \in {"Confirmed", "Cancelled"}
    /\ preview.inspected /\ preview.view = "warned"
    /\ last.op = "showDiffPreview" /\ last.result \in {"true", "false"}

====
